---- MODULE Spec2Model ----
(***************************************************************************)
(* A model of the yawal write-ahead logger: Offset, chunk, Segment,        *)
(* MemorySink, DirectorySink, Logger and Reader.                           *)
(*                                                                         *)
(* Bytes and characters are integers (ASCII codes), byte strings and text  *)
(* are sequences of them.  A chunk is the record [off, data] that the Go   *)
(* type lays out as 8 little-endian offset bytes followed by the payload.  *)
(* Unsigned 64-bit arithmetic is scaled down to words of WordBits bits.    *)
(***************************************************************************)
EXTENDS Integers, Sequences, FiniteSets, TLC

(***************************************************************************)
(* Bounds of the model.                                                    *)
(***************************************************************************)
\* Width of the scaled-down machine word standing for Go's 64-bit integers.
WordBits == 7
\* The wall clock takes the values FirstStamp..MaxClock.
MaxClock == 4
\* Number of Logger.Write calls in one behaviour.
MaxWrites == 2
\* Number of Truncate calls in one behaviour.
MaxTruncates == 1
\* Number of Readers.
NumReaders == 1

(***************************************************************************)
(* Program constants.                                                      *)
(***************************************************************************)
chunkOffsetSize == 8
chunkSeparator == 58
Newline == 10
Dash == 45

UintMod == 2 ^ WordBits
\* uint64(x): reduction modulo the word size.
ToUint(x) == x % UintMod
\* int64(x) of an unsigned word: two's complement reinterpretation.
ToInt(x) == IF ToUint(x) >= UintMod \div 2 THEN ToUint(x) - UintMod ELSE ToUint(x)

(***************************************************************************)
(* Sequence helpers.                                                       *)
(***************************************************************************)
RECURSIVE Rep(_, _)
\* F applied to the value of x: names an intermediate result once.
With(x, F(_)) == F(x)

Rep(b, n) == IF n = 0 THEN << >> ELSE <<b>> \o Rep(b, n - 1)

\* s[i:] of Go, with 0-based i.
Drop(s, i) == SubSeq(s, i + 1, Len(s))
\* s[:i] of Go.
Take(s, i) == SubSeq(s, 1, i)

\* bytes.Index / strings.Index of a single byte: 0-based position or -1.
IndexByte(s, c) ==
    IF \E i \in 1..Len(s) : s[i] = c
    THEN (CHOOSE i \in 1..Len(s) : s[i] = c /\ \A j \in 1..(i - 1) : s[j] # c) - 1
    ELSE -1


RECURSIVE Flatten(_)
Flatten(ss) == IF ss = << >> THEN << >> ELSE ss[1] \o Flatten(Tail(ss))

\* bytes.Split(p, "\n"): the rows between separators (n separators, n+1 rows).
RECURSIVE SplitLines(_)
SplitLines(p) ==
    LET i == IndexByte(p, Newline)
    IN  IF i = -1 THEN <<p>> ELSE <<Take(p, i)>> \o SplitLines(Drop(p, i + 1))

(***************************************************************************)
(* Offset (offset.go).                                                     *)
(***************************************************************************)
ZeroOffset == 0

Offset_Before(o, b) == o < b

\* As written in the source: After compares with time.Before.
Offset_After(o, b) == o < b

Offset_Equal(o, b) == o = b

Offset_Within(o, a, b) == a <= o /\ o <= b

\* strconv.FormatInt(n, 10).
RECURSIVE FormatNat(_)
FormatNat(n) == IF n < 10 THEN <<48 + n>> ELSE FormatNat(n \div 10) \o <<48 + (n % 10)>>

Offset_String(o) == IF o < 0 THEN <<Dash>> \o FormatNat(0 - o) ELSE FormatNat(o)

IsDigit(c) == 48 <= c /\ c <= 57

RECURSIVE DigitsValue(_)
DigitsValue(s) ==
    IF s = << >> THEN 0 ELSE DigitsValue(Take(s, Len(s) - 1)) * 10 + (s[Len(s)] - 48)

\* The range of int64 in the program's words.
IntMin == 0 - (UintMod \div 2)
IntMax == (UintMod \div 2) - 1

\* strconv.ParseInt(s, 10, 64) wrapped by ParseOffset: [ok, val].
ParseOffset(s) ==
    LET signed == Len(s) > 0 /\ s[1] \in {43, Dash}
        digits == IF signed THEN Tail(s) ELSE s
        val == IF Len(digits) = 0 \/ \E i \in 1..Len(digits) : ~IsDigit(digits[i])
               THEN IntMax + 1
               ELSE IF signed /\ s[1] = Dash THEN 0 - DigitsValue(digits)
               ELSE DigitsValue(digits)
    IN  \* a syntax error, or a value out of the range of the signed word
        IF val < IntMin \/ val > IntMax
        THEN [ok |-> FALSE, val |-> ZeroOffset]
        ELSE [ok |-> TRUE, val |-> val]

(***************************************************************************)
(* base64.RawStdEncoding, as used by chunk.MarshalText / UnmarshalText.    *)
(***************************************************************************)
B64Char(v) ==
    IF v < 26 THEN 65 + v
    ELSE IF v < 52 THEN 97 + (v - 26)
    ELSE IF v < 62 THEN 48 + (v - 52)
    ELSE IF v = 62 THEN 43 ELSE 47

B64Value(c) ==
    IF 65 <= c /\ c <= 90 THEN c - 65
    ELSE IF 97 <= c /\ c <= 122 THEN c - 97 + 26
    ELSE IF 48 <= c /\ c <= 57 THEN c - 48 + 52
    ELSE IF c = 43 THEN 62
    ELSE IF c = 47 THEN 63 ELSE -1

RECURSIVE B64Encode(_)
B64Encode(d) ==
    IF Len(d) = 0 THEN << >>
    ELSE IF Len(d) = 1 THEN <<B64Char(d[1] \div 4), B64Char((d[1] % 4) * 16)>>
    ELSE IF Len(d) = 2
         THEN <<B64Char(d[1] \div 4),
                B64Char((d[1] % 4) * 16 + d[2] \div 16),
                B64Char((d[2] % 16) * 4)>>
    ELSE <<B64Char(d[1] \div 4),
           B64Char((d[1] % 4) * 16 + d[2] \div 16),
           B64Char((d[2] % 16) * 4 + d[3] \div 64),
           B64Char(d[3] % 64)>> \o B64Encode(Drop(d, 3))

B64Valid(t) == Len(t) % 4 # 1 /\ \A i \in 1..Len(t) : B64Value(t[i]) >= 0

RECURSIVE B64Decode(_)
B64Decode(t) ==
    IF Len(t) < 2 THEN << >>
    ELSE LET a == B64Value(t[1])
             b == B64Value(t[2])
         IN  IF Len(t) = 2 THEN <<a * 4 + b \div 16>>
             ELSE LET c == B64Value(t[3])
                  IN  IF Len(t) = 3
                      THEN <<a * 4 + b \div 16, (b % 16) * 16 + c \div 4>>
                      ELSE <<a * 4 + b \div 16,
                             (b % 16) * 16 + c \div 4,
                             (c % 4) * 64 + B64Value(t[4])>> \o B64Decode(Drop(t, 4))

(***************************************************************************)
(* chunk (chunk.go).                                                       *)
(***************************************************************************)
\* newChunkOffset stores uint64(o) in the first chunkOffsetSize bytes and
\* chunk.Offset reads them back as an Offset: off is the Offset read back.
newChunkOffset(data, o) == [off |-> ToInt(ToUint(o)), data |-> data]

\* len(*c): the raw length of a chunk.
ChunkLen(c) == chunkOffsetSize + Len(c.data)

\* chunk.MarshalText writing the magnitude of the offset without its sign.
chunk_MarshalText_Unsigned(c) ==
    FormatNat(IF c.off < 0 THEN 0 - c.off ELSE c.off) \o <<chunkSeparator>> \o B64Encode(c.data)

\* chunk.MarshalText
chunk_MarshalText(c) == Offset_String(c.off) \o <<chunkSeparator>> \o B64Encode(c.data)

\* [ok, chunk]
chunk_UnmarshalText(p) ==
    With(IndexByte(p, chunkSeparator), LAMBDA sep :
    With(ParseOffset(Take(p, sep)), LAMBDA off :
    With(Drop(p, sep + 1), LAMBDA body :
        IF sep = -1 \/ ~off.ok \/ ~B64Valid(body)
        THEN [ok |-> FALSE, chunk |-> newChunkOffset(<< >>, ZeroOffset)]
        ELSE [ok |-> TRUE, chunk |-> newChunkOffset(B64Decode(body), off.val)])))

(***************************************************************************)
(* Segment (segment.go).  A Segment value is [size, chunks, chunkIdx];     *)
(* chunkIdx is the 0-based Go index, chunks[k] of Go is chunks[k + 1] here. *)
(***************************************************************************)
NewSegmentSize(size) == [size |-> size, chunks |-> << >>, chunkIdx |-> -1]

\* new(Segment): the zero value of the struct.
ZeroSegment == [size |-> 0, chunks |-> << >>, chunkIdx |-> 0]

RECURSIVE RawSize(_)
RawSize(chunks) ==
    IF chunks = << >> THEN 0 ELSE ChunkLen(chunks[1]) + RawSize(Tail(chunks))

\* Segment.Size
Segment_Size(s) == RawSize(s.chunks)

\* Segment.remaining: int64(s.size - n) with n an unsigned sum.
Segment_remaining(s) == ToInt(s.size - ToUint(RawSize(s.chunks)))

\* Segment.Write / Segment.write with newChunk stamping the offset `now`.
\* [seg, err]
Segment_Write(s, p, now) ==
    IF Len(p) = 0 THEN [seg |-> s, err |-> "nil"]
    ELSE IF ToInt(Len(p)) > Segment_remaining(s)
         THEN [seg |-> s, err |-> "ErrNotEnoughSpace"]
         ELSE [seg |-> [s EXCEPT !.chunks = Append(@, newChunkOffset(p, now))],
               err |-> "nil"]

\* Segment.Next: [seg, ok]
Segment_Next(s) ==
    IF s.chunkIdx + 1 = Len(s.chunks)
    THEN [seg |-> s, ok |-> FALSE]
    ELSE [seg |-> [s EXCEPT !.chunkIdx = @ + 1], ok |-> TRUE]

\* s.chunks[s.chunkIdx] is an index in range (otherwise Go panics).
CursorInRange(s) == 0 <= s.chunkIdx /\ s.chunkIdx < Len(s.chunks)

\* Segment.Chunk
Segment_Chunk(s) == s.chunks[s.chunkIdx + 1]

\* Segment.CurrentReadOffset
Segment_CurrentReadOffset(s) == s.chunks[s.chunkIdx + 1].off

\* Segment.Chunks
Segment_Chunks(s) == Len(s.chunks)

\* Segment.Limits: <<oldest, newest>>
Segment_Limits(s) ==
    IF Len(s.chunks) = 0 THEN <<ZeroOffset, ZeroOffset>>
    ELSE <<s.chunks[1].off, s.chunks[Len(s.chunks)].off>>

\* Segment.Truncate: the loop stops at the first chunk c with
\* c.Offset().After(offset), at 0-based index i.
Segment_Truncate(s, offset) ==
    LET hits == {i \in 0..(Len(s.chunks) - 1) : Offset_After(s.chunks[i + 1].off, offset)}
    IN  IF hits = {} THEN s
        ELSE LET i == CHOOSE k \in hits : \A j \in hits : k <= j
             IN  [s EXCEPT !.chunks = Drop(@, i),
                           !.chunkIdx = IF @ > 0 THEN @ - (i + 1) ELSE @]

RECURSIVE EncodeChunks(_)
EncodeChunks(chunks) ==
    IF chunks = << >> THEN << >>
    ELSE chunk_MarshalText(chunks[1]) \o <<Newline>> \o EncodeChunks(Tail(chunks))

\* Segment.WriteTo: the bytes handed to the writer.
Segment_WriteTo(s) == EncodeChunks(s.chunks)

\* Segment.EncodedSize
RECURSIVE EncodedSizeOf(_)
EncodedSizeOf(chunks) ==
    IF chunks = << >> THEN 0
    ELSE Len(chunk_MarshalText(chunks[1])) + 1 + EncodedSizeOf(Tail(chunks))

\* Segment.EncodedSize not counting the newline after each chunk.
Segment_EncodedSize_NoNewline(s) == EncodedSizeOf(s.chunks) - Len(s.chunks)

Segment_EncodedSize(s) == EncodedSizeOf(s.chunks)

\* The loop of Segment.ReadFrom over the rows: [chunks, ok], stopping at the
\* first row that does not unmarshal.
RECURSIVE ReadRows(_, _)
ReadRows(rows, acc) ==
    IF rows = << >> THEN [chunks |-> acc, ok |-> TRUE]
    ELSE IF Len(rows[1]) = 0 THEN ReadRows(Tail(rows), acc)
    ELSE With(chunk_UnmarshalText(rows[1]), LAMBDA c :
             IF ~c.ok THEN [chunks |-> acc, ok |-> FALSE]
             ELSE ReadRows(Tail(rows), Append(acc, c.chunk)))

\* Segment.ReadFrom unmarshalling the first row only.
Segment_ReadFrom_FirstRow(s, p) ==
    IF Len(s.chunks) # 0 THEN [seg |-> s, n |-> 0, err |-> "populated"]
    ELSE With(ReadRows(<<SplitLines(p)[1]>>, << >>), LAMBDA r :
             [seg |-> [s EXCEPT !.chunks = r.chunks],
              n |-> IF r.ok THEN Len(p) ELSE 0,
              err |-> IF r.ok THEN "nil" ELSE "unmarshal chunk"])

\* Segment.ReadFrom: [seg, n, err]
Segment_ReadFrom(s, p) ==
    IF Len(s.chunks) # 0 THEN [seg |-> s, n |-> 0, err |-> "populated"]
    ELSE With(ReadRows(SplitLines(p), << >>), LAMBDA r :
             [seg |-> [s EXCEPT !.chunks = r.chunks],
              n |-> IF r.ok THEN Len(p) ELSE 0,
              err |-> IF r.ok THEN "nil" ELSE "unmarshal chunk"])

(***************************************************************************)
(* hash/crc64 with the ISO polynomial (DirectorySink.newChecksum).  A      *)
(* 64-bit value is the set of the positions of its 1 bits (0 the least     *)
(* significant), so that ^ is the symmetric difference.                    *)
(***************************************************************************)
Xor(a, b) == (a \ b) \cup (b \ a)

\* The bits of the byte v.
ByteBits(v) == {k \in 0..7 : (v \div (2 ^ k)) % 2 = 1}

\* The byte at bits 8k .. 8k+7 of c.
RECURSIVE BitsValue(_, _, _)
BitsValue(c, lo, n) ==
    IF n = 0 THEN 0
    ELSE (IF lo \in c THEN 1 ELSE 0) + 2 * BitsValue(c, lo + 1, n - 1)

\* crc64.ISO = 0xD800000000000000
CrcPoly == {59, 60, 62, 63}

\* c >> n
ShiftRight(c, n) == {b - n : b \in {x \in c : x >= n}}

\* One round of crc64.MakeTable: shift right by one bit and xor the
\* polynomial in when the bit shifted out was set.
CrcShift(c) == IF 0 \in c THEN Xor(ShiftRight(c, 1), CrcPoly) ELSE ShiftRight(c, 1)

\* crc64.MakeTable(crc64.ISO)[i]
CrcTable(i) ==
    CrcShift(CrcShift(CrcShift(CrcShift(CrcShift(CrcShift(CrcShift(CrcShift(ByteBits(i)))))))))

\* crc = tab[byte(crc)^v] ^ (crc >> 8)
CrcByte(c, v) ==
    Xor(CrcTable(BitsValue(Xor(c \cap (0..7), ByteBits(v)), 0, 8)), ShiftRight(c, 8))

RECURSIVE CrcUpdate(_, _, _)
CrcUpdate(c, p, k) ==
    IF k > Len(p) THEN c
    ELSE With(CrcByte(c, p[k]), LAMBDA d :
             \* (the test only makes the evaluator compute d before it recurses)
             IF Cardinality(d) < 0 THEN d ELSE CrcUpdate(d, p, k + 1))

CrcNot(c) == (0..63) \ c

\* The digest after writing p to a new hash: crc64.Checksum(p, table).
newChecksum(p) == CrcNot(CrcUpdate(CrcNot({}), p, 1))

HexDigit(v) == IF v < 10 THEN 48 + v ELSE 97 + (v - 10)

HexByte(b) == <<HexDigit(b \div 16), HexDigit(b % 16)>>

\* hex.EncodeToString(chksum.Sum(nil)): the digest big-endian, in hex.
ChecksumText(p) ==
    With(newChecksum(p), LAMBDA c :
        HexByte(BitsValue(c, 56, 8)) \o HexByte(BitsValue(c, 48, 8)) \o
        HexByte(BitsValue(c, 40, 8)) \o HexByte(BitsValue(c, 32, 8)) \o
        HexByte(BitsValue(c, 24, 8)) \o HexByte(BitsValue(c, 16, 8)) \o
        HexByte(BitsValue(c, 8, 8)) \o HexByte(BitsValue(c, 0, 8)))

\* ".CHECKSUM"
ChecksumSuffix == <<46, 67, 72, 69, 67, 75, 83, 85, 77>>

(***************************************************************************)
(* Sinks.  The state of a Sink with its storage is one record:             *)
(*   kind              "mem" (MemorySink) or "dir" (DirectorySink)         *)
(*   heap, msegs       the Segment objects a MemorySink points to, and     *)
(*                     MemorySink.segments as indexes into heap            *)
(*   dsegs, dpaths     DirectorySink.segments and DirectorySink.segPaths   *)
(*   disk              the files of the directory: name -> bytes           *)
(* A loaded segment is handed out as a handle: nil, a pointer into heap    *)
(* (MemorySink) or a freshly built Segment value (DirectorySink).          *)
(***************************************************************************)
NilSeg == [tag |-> "nil", id |-> 0, val |-> ZeroSegment]
RefSeg(i) == [tag |-> "ref", id |-> i, val |-> ZeroSegment]
OwnSeg(s) == [tag |-> "own", id |-> 0, val |-> s]

NoFiles == [n \in {} |-> << >>]
FileWrite(disk, name, data) ==
    [n \in (DOMAIN disk) \cup {name} |-> IF n = name THEN data ELSE disk[n]]
FileRemove(disk, name) == [n \in (DOMAIN disk) \ {name} |-> disk[n]]

\* broken: os.Create fails in the Sink's directory (it is gone, read-only
\* or full); a MemorySink has no directory.
NewMemorySink ==
    [kind |-> "mem", heap |-> << >>, msegs |-> << >>,
     dsegs |-> << >>, dpaths |-> << >>, disk |-> NoFiles, broken |-> FALSE]

NewDirectorySink(disk) ==
    [kind |-> "dir", heap |-> << >>, msegs |-> << >>,
     dsegs |-> << >>, dpaths |-> << >>, disk |-> disk, broken |-> FALSE]

Min(S) == CHOOSE k \in S : \A j \in S : k <= j

\* MemorySink.LoadSegment taking only a segment whose range holds the offset.
MemorySink_LoadSegment_WithinOnly(sk, offset) ==
    IF Offset_Equal(offset, ZeroOffset)
    THEN IF Len(sk.msegs) = 0
         THEN [h |-> NilSeg, err |-> "panic"]
         ELSE [h |-> RefSeg(sk.msegs[1]), err |-> "nil"]
    ELSE LET hits == {i \in 1..Len(sk.msegs) :
                        LET l == Segment_Limits(sk.heap[sk.msegs[i]])
                        IN  Offset_Within(offset, l[1], l[2])}
         IN  IF hits = {} THEN [h |-> NilSeg, err |-> "EOF"]
             ELSE [h |-> RefSeg(sk.msegs[Min(hits)]), err |-> "nil"]

\* MemorySink.LoadSegment: [h, err]
MemorySink_LoadSegment(sk, offset) ==
    IF Offset_Equal(offset, ZeroOffset)
    THEN IF Len(sk.msegs) = 0
         THEN [h |-> NilSeg, err |-> "panic"]
         ELSE [h |-> RefSeg(sk.msegs[1]), err |-> "nil"]
    ELSE LET hits == {i \in 1..Len(sk.msegs) :
                        LET l == Segment_Limits(sk.heap[sk.msegs[i]])
                        IN  Offset_Within(offset, l[1], l[2]) \/ Offset_Before(offset, l[1])}
         IN  IF hits = {} THEN [h |-> NilSeg, err |-> "EOF"]
             ELSE [h |-> RefSeg(sk.msegs[Min(hits)]), err |-> "nil"]

\* MemorySink.WriteSegment without the test for a segment without chunks.
MemorySink_WriteSegment_Always(sk, seg) ==
    [sink |-> [sk EXCEPT !.heap = Append(@, seg),
                         !.msegs = Append(@, Len(sk.heap) + 1)],
     err |-> "nil"]

\* MemorySink.WriteSegment: [sink, err]
MemorySink_WriteSegment(sk, seg) ==
    LET l == Segment_Limits(seg)
    IN  IF Offset_Equal(l[1], ZeroOffset) /\ Offset_Equal(l[2], ZeroOffset)
        THEN [sink |-> sk, err |-> "nil"]
        ELSE [sink |-> [sk EXCEPT !.heap = Append(@, seg),
                                  !.msegs = Append(@, Len(sk.heap) + 1)],
              err |-> "nil"]

\* MemorySink.NumSegments
MemorySink_NumSegments(sk) == Len(sk.msegs)

\* MemorySink.Offsets: [first, last, err]
MemorySink_Offsets(sk) ==
    IF Len(sk.msegs) = 0 THEN [first |-> ZeroOffset, last |-> ZeroOffset, err |-> "panic"]
    ELSE [first |-> Segment_Limits(sk.heap[sk.msegs[1]])[1],
          last |-> Segment_Limits(sk.heap[sk.msegs[Len(sk.msegs)]])[2],
          err |-> "nil"]

\* The first loop of a Truncate: the number of leading segments whose newest
\* offset is Before(offset); ends[i] is the newest offset of segment i.
RECURSIVE WholeSegments(_, _, _)
WholeSegments(ends, offset, i) ==
    IF i <= Len(ends) /\ Offset_Before(ends[i], offset)
    THEN 1 + WholeSegments(ends, offset, i + 1)
    ELSE 0

\* MemorySink.Truncate looking at the oldest offset of each segment instead
\* of its newest when it drops whole segments.
MemorySink_Truncate_ByOldest(sk, offset) ==
    LET starts == [i \in 1..Len(sk.msegs) |-> Segment_Limits(sk.heap[sk.msegs[i]])[1]]
        removed == WholeSegments(starts, offset, 1)
        segs == IF removed > 0 THEN Drop(sk.msegs, removed) ELSE sk.msegs
        cut == [sk EXCEPT !.msegs = segs]
    IN  IF Len(segs) = 0 THEN [sink |-> cut, err |-> "panic"]
        ELSE LET first == sk.heap[segs[1]]
                 l == Segment_Limits(first)
             IN  IF Offset_Within(offset, l[1], l[2])
                 THEN [sink |-> [cut EXCEPT !.heap[segs[1]] = Segment_Truncate(first, offset)],
                       err |-> "nil"]
                 ELSE [sink |-> cut, err |-> "nil"]

\* MemorySink.Truncate: [sink, err]
MemorySink_Truncate(sk, offset) ==
    LET ends == [i \in 1..Len(sk.msegs) |-> Segment_Limits(sk.heap[sk.msegs[i]])[2]]
        removed == WholeSegments(ends, offset, 1)
        segs == IF removed > 0 THEN Drop(sk.msegs, removed) ELSE sk.msegs
        cut == [sk EXCEPT !.msegs = segs]
    IN  IF Len(segs) = 0 THEN [sink |-> cut, err |-> "panic"]
        ELSE LET first == sk.heap[segs[1]]
                 l == Segment_Limits(first)
             IN  IF Offset_Within(offset, l[1], l[2])
                 THEN [sink |-> [cut EXCEPT !.heap[segs[1]] = Segment_Truncate(first, offset)],
                       err |-> "nil"]
                 ELSE [sink |-> cut, err |-> "nil"]

\* fmtSegFileName
fmtSegFileName(seg) ==
    Offset_String(Segment_Limits(seg)[1]) \o <<Dash>> \o Offset_String(Segment_Limits(seg)[2])

\* DirectorySink.writeSegment with writeChecksum: the segment file and its
\* .CHECKSUM sibling are created (or overwritten), unless os.Create of the
\* segment file fails.  [sink, err]
DirectorySink_writeSegment(sk, seg) ==
    IF sk.broken THEN [sink |-> sk, err |-> "create segment file"]
    ELSE
    With(fmtSegFileName(seg), LAMBDA name :
    With(Segment_WriteTo(seg), LAMBDA data :
        [sink |-> [sk EXCEPT !.disk = FileWrite(FileWrite(@, name, data),
                                                name \o ChecksumSuffix,
                                                ChecksumText(data))],
         err |-> "nil"]))

\* DirectorySink.WriteSegment: [sink, err]
DirectorySink_WriteSegment(sk, seg) ==
    With(Segment_Limits(seg), LAMBDA l :
        IF l[1] = ZeroOffset /\ l[2] = ZeroOffset
        THEN [sink |-> sk, err |-> "nil"]
        ELSE With(DirectorySink_writeSegment(sk, seg), LAMBDA w :
                 IF w.err # "nil" THEN w
                 ELSE [sink |-> [w.sink EXCEPT !.dsegs = Append(@, l),
                                               !.dpaths = Append(@, fmtSegFileName(seg))],
                       err |-> "nil"]))

\* DirectorySink.loadSegment: [h, err]
DirectorySink_loadSegment(sk, name) ==
    IF name \notin DOMAIN sk.disk
    THEN [h |-> NilSeg, err |-> "open segment file"]
    ELSE With(Segment_ReadFrom(ZeroSegment, sk.disk[name]), LAMBDA r :
             IF r.err # "nil" THEN [h |-> NilSeg, err |-> "load segment"]
             ELSE [h |-> OwnSeg(r.seg), err |-> "nil"])

\* DirectorySink.LoadSegment taking also a segment newer than the offset.
DirectorySink_LoadSegment_OrNewer(sk, offset) ==
    IF Offset_Equal(offset, ZeroOffset)
    THEN IF Len(sk.dpaths) = 0
         THEN [h |-> NilSeg, err |-> "no segments to load"]
         ELSE DirectorySink_loadSegment(sk, sk.dpaths[1])
    ELSE With({i \in 1..Len(sk.dsegs) :
                 \/ Offset_Within(offset, sk.dsegs[i][1], sk.dsegs[i][2])
                 \/ Offset_Before(offset, sk.dsegs[i][1])}, LAMBDA hits :
             IF hits = {} THEN [h |-> NilSeg, err |-> "EOF"]
             ELSE DirectorySink_loadSegment(sk, sk.dpaths[Min(hits)]))

\* DirectorySink.LoadSegment: [h, err]
DirectorySink_LoadSegment(sk, offset) ==
    IF Offset_Equal(offset, ZeroOffset)
    THEN IF Len(sk.dpaths) = 0
         THEN [h |-> NilSeg, err |-> "no segments to load"]
         ELSE DirectorySink_loadSegment(sk, sk.dpaths[1])
    ELSE With({i \in 1..Len(sk.dsegs) :
                 Offset_Within(offset, sk.dsegs[i][1], sk.dsegs[i][2])}, LAMBDA hits :
             IF hits = {} THEN [h |-> NilSeg, err |-> "EOF"]
             ELSE DirectorySink_loadSegment(sk, sk.dpaths[Min(hits)]))

\* Go's string order: byte-wise lexicographic.
LexLess(a, b) ==
    With({i \in 1..Min({Len(a), Len(b)}) : a[i] # b[i]}, LAMBDA diffs :
        IF diffs = {} THEN Len(a) < Len(b)
        ELSE a[Min(diffs)] < b[Min(diffs)])

\* The file names of a directory in the order filepath.Walk visits them.
RECURSIVE SortNames(_)
SortNames(S) ==
    IF S = {} THEN << >>
    ELSE With(CHOOSE x \in S : \A y \in S \ {x} : LexLess(x, y), LAMBDA m :
             <<m>> \o SortNames(S \ {m}))

\* filepath.Match("*.CHECKSUM", name)
IsChecksumName(name) ==
    /\ Len(name) >= Len(ChecksumSuffix)
    /\ Drop(name, Len(name) - Len(ChecksumSuffix)) = ChecksumSuffix

\* filepath.Match("*\\-*", name)
IsSegmentName(name) == IndexByte(name, Dash) # -1

\* DirectorySink.findFiles: [segments, checksums]
DirectorySink_findFiles(sk) ==
    With(SortNames(DOMAIN sk.disk), LAMBDA names :
        [segments |-> SelectSeq(names, LAMBDA n : ~IsChecksumName(n) /\ IsSegmentName(n)),
         checksums |-> SelectSeq(names, IsChecksumName)])

HexValue(c) ==
    IF 48 <= c /\ c <= 57 THEN c - 48
    ELSE IF 97 <= c /\ c <= 102 THEN c - 97 + 10
    ELSE IF 65 <= c /\ c <= 70 THEN c - 65 + 10 ELSE -1

\* hex.Decode: [ok, bytes]
HexDecode(t) ==
    IF Len(t) % 2 # 0 \/ \E i \in 1..Len(t) : HexValue(t[i]) < 0
    THEN [ok |-> FALSE, bytes |-> << >>]
    ELSE [ok |-> TRUE,
          bytes |-> [i \in 1..(Len(t) \div 2) |->
                        HexValue(t[2 * i - 1]) * 16 + HexValue(t[2 * i])]]

\* calc.Sum(nil) after copying p into a new hash: the digest, big-endian.
ChecksumSum(p) ==
    With(newChecksum(p), LAMBDA c : [i \in 1..8 |-> BitsValue(c, 64 - 8 * i, 8)])

\* DirectorySink.loadChecksum: [ok, bytes]
DirectorySink_loadChecksum(sk, name) ==
    IF name \notin DOMAIN sk.disk THEN [ok |-> FALSE, bytes |-> << >>]
    ELSE HexDecode(sk.disk[name])

\* DirectorySink.verifySegment: the error
DirectorySink_verifySegment(sk, segmentPath, chksumPath) ==
    With(DirectorySink_loadChecksum(sk, chksumPath), LAMBDA chksum :
        IF ~chksum.ok THEN "load checksum"
        ELSE IF segmentPath \notin DOMAIN sk.disk THEN "open segment file"
        ELSE IF ChecksumSum(sk.disk[segmentPath]) # chksum.bytes THEN "checksum mismatch"
        ELSE "nil")

\* DirectorySink.parseOffsets: [ok, start, end]
DirectorySink_parseOffsets(name) ==
    With(IndexByte(name, Dash), LAMBDA sep :
        IF sep = -1 THEN [ok |-> FALSE, start |-> ZeroOffset, end |-> ZeroOffset]
        ELSE With(ParseOffset(Take(name, sep)), LAMBDA start :
             With(ParseOffset(Drop(name, sep + 1)), LAMBDA end :
                 IF ~start.ok \/ ~end.ok
                 THEN [ok |-> FALSE, start |-> ZeroOffset, end |-> ZeroOffset]
                 ELSE [ok |-> TRUE, start |-> start.val, end |-> end.val])))

\* The loop of DirectorySink.Analyze from the 1-based index i on:
\* [sink, err]; chksums[i] beyond the checksum files found panics.
RECURSIVE AnalyzeFiles(_, _, _, _)
AnalyzeFiles(sk, files, chksums, i) ==
    IF i > Len(files) THEN [sink |-> sk, err |-> "nil"]
    ELSE IF i > Len(chksums) THEN [sink |-> sk, err |-> "panic"]
    ELSE With(DirectorySink_verifySegment(sk, files[i], chksums[i]), LAMBDA v :
        IF v # "nil" THEN [sink |-> sk, err |-> "failed checksum"]
        ELSE With(DirectorySink_parseOffsets(files[i]), LAMBDA o :
            IF ~o.ok THEN [sink |-> sk, err |-> "analyze"]
            ELSE AnalyzeFiles([sk EXCEPT !.dsegs = Append(@, <<o.start, o.end>>),
                                         !.dpaths = Append(@, files[i])],
                              files, chksums, i + 1)))

\* DirectorySink.Analyze keeping the entries the index already holds.
DirectorySink_Analyze_NoReset(sk) ==
    With(DirectorySink_findFiles(sk), LAMBDA found :
        AnalyzeFiles(sk, found.segments, found.checksums, 1))

\* DirectorySink.Analyze, with reset: [sink, err]
DirectorySink_Analyze(sk) ==
    With(DirectorySink_findFiles(sk), LAMBDA found :
        AnalyzeFiles([sk EXCEPT !.dsegs = << >>, !.dpaths = << >>],
                     found.segments, found.checksums, 1))

\* MemorySink.Analyze: [sink, err]
MemorySink_Analyze(sk) == [sink |-> sk, err |-> "nil"]

\* DirectorySink.NumSegments
DirectorySink_NumSegments(sk) == Len(sk.dsegs)

\* DirectorySink.Offsets: [first, last, err]
DirectorySink_Offsets(sk) ==
    IF Len(sk.dsegs) = 0 THEN [first |-> ZeroOffset, last |-> ZeroOffset, err |-> "panic"]
    ELSE [first |-> sk.dsegs[1][1], last |-> sk.dsegs[Len(sk.dsegs)][2], err |-> "nil"]

\* DirectorySink.deleteSegmentFile: [disk, err]
DirectorySink_deleteSegmentFile(disk, name) ==
    IF name \notin DOMAIN disk THEN [disk |-> disk, err |-> "rm"]
    ELSE IF (name \o ChecksumSuffix) \notin DOMAIN disk
         THEN [disk |-> FileRemove(disk, name), err |-> "rm checksum"]
         ELSE [disk |-> FileRemove(FileRemove(disk, name), name \o ChecksumSuffix),
               err |-> "nil"]

\* The first loop of DirectorySink.Truncate from index i on:
\* [removed, disk, err]
RECURSIVE DeleteWholeSegments(_, _, _, _, _)
DeleteWholeSegments(sk, disk, offset, i, removed) ==
    IF i <= Len(sk.dsegs) /\ Offset_Before(sk.dsegs[i][2], offset)
    THEN With(DirectorySink_deleteSegmentFile(disk, sk.dpaths[i]), LAMBDA d :
             IF d.err # "nil"
             THEN [removed |-> removed, disk |-> d.disk, err |-> d.err]
             ELSE DeleteWholeSegments(sk, d.disk, offset, i + 1, removed + 1))
    ELSE [removed |-> removed, disk |-> disk, err |-> "nil"]

\* DirectorySink.Truncate: [sink, err]
DirectorySink_Truncate(sk, offset) ==
    With(DeleteWholeSegments(sk, sk.disk, offset, 1, 0), LAMBDA del :
    With([sk EXCEPT !.disk = del.disk,
                    !.dsegs = IF del.removed > 0 THEN Drop(@, del.removed) ELSE @,
                    !.dpaths = IF del.removed > 0 THEN Drop(@, del.removed) ELSE @],
         LAMBDA cut :
        IF del.err # "nil" THEN [sink |-> cut, err |-> "delete segment file"]
        ELSE IF Len(cut.dsegs) = 0 THEN [sink |-> cut, err |-> "panic"]
        ELSE IF Offset_Before(cut.dsegs[1][1], offset) /\ Offset_After(cut.dsegs[1][2], offset)
        THEN With(DirectorySink_loadSegment(cut, cut.dpaths[1]), LAMBDA ld :
                 IF ld.err # "nil" THEN [sink |-> cut, err |-> "truncate segment"]
                 ELSE With(Segment_Truncate(ld.h.val, offset), LAMBDA seg :
                      With(DirectorySink_writeSegment(cut, seg), LAMBDA w :
                          IF w.err # "nil"
                          THEN [sink |-> w.sink, err |-> "write truncated segment"]
                          ELSE [sink |-> [w.sink EXCEPT
                                            !.dsegs[1] = <<Segment_Limits(seg)[1], @[2]>>,
                                            !.dpaths[1] = fmtSegFileName(seg)],
                                err |-> "nil"])))
        ELSE [sink |-> cut, err |-> "nil"]))

(***************************************************************************)
(* The Sink interface (sink.go): dispatch on the backend.                  *)
(***************************************************************************)
Sink_LoadSegment(sk, offset) ==
    IF sk.kind = "mem" THEN MemorySink_LoadSegment(sk, offset)
    ELSE DirectorySink_LoadSegment(sk, offset)

Sink_WriteSegment(sk, seg) ==
    IF sk.kind = "mem" THEN MemorySink_WriteSegment(sk, seg)
    ELSE DirectorySink_WriteSegment(sk, seg)

Sink_Truncate(sk, offset) ==
    IF sk.kind = "mem" THEN MemorySink_Truncate(sk, offset)
    ELSE DirectorySink_Truncate(sk, offset)

Sink_Analyze(sk) ==
    IF sk.kind = "mem" THEN MemorySink_Analyze(sk) ELSE DirectorySink_Analyze(sk)

Sink_NumSegments(sk) ==
    IF sk.kind = "mem" THEN MemorySink_NumSegments(sk) ELSE DirectorySink_NumSegments(sk)

Sink_Offsets(sk) ==
    IF sk.kind = "mem" THEN MemorySink_Offsets(sk) ELSE DirectorySink_Offsets(sk)

\* MemorySink.Close / DirectorySink.Close
Sink_Close(sk) == [sink |-> sk, err |-> "nil"]

(***************************************************************************)
(* Logger (logger.go).  A Logger is [seg, segSize, closed]; its Sink is    *)
(* passed alongside.  A call that never returns (the goto loop of Write    *)
(* not making progress) is reported as err = "hang".                       *)
(***************************************************************************)
New(segSize) == [seg |-> NewSegmentSize(segSize), segSize |-> segSize, closed |-> FALSE]

\* Logger.flush starting a fresh segment without handing the old one to
\* the Sink.
Logger_flush_Dropped(l, sk) ==
    [logger |-> [l EXCEPT !.seg = NewSegmentSize(l.segSize)], sink |-> sk, err |-> "nil"]

\* Logger.flush starting a fresh segment also when the Sink's WriteSegment
\* failed.
Logger_flush_Replacing(l, sk) ==
    With(Sink_WriteSegment(sk, l.seg), LAMBDA w :
        [logger |-> [l EXCEPT !.seg = NewSegmentSize(l.segSize)], sink |-> w.sink,
         err |-> IF w.err # "nil" THEN "write segment" ELSE "nil"])

\* Logger.flush: [logger, sink, err]
Logger_flush(l, sk) ==
    With(Sink_WriteSegment(sk, l.seg), LAMBDA w :
        IF w.err # "nil"
        THEN [logger |-> l, sink |-> w.sink, err |-> "write segment"]
        ELSE [logger |-> [l EXCEPT !.seg = NewSegmentSize(l.segSize)],
              sink |-> w.sink, err |-> "nil"])

\* Logger.Write without the test of len(p) against l.segSize.
Logger_Write_Unchecked(l, sk, p, now) ==
    IF l.closed
    THEN [logger |-> l, sink |-> sk, err |-> "ErrLoggerClosed", flushes |-> 0]
    ELSE With(Segment_Write(l.seg, p, now), LAMBDA w1 :
        IF w1.err # "ErrNotEnoughSpace"
        THEN [logger |-> [l EXCEPT !.seg = w1.seg], sink |-> sk,
              err |-> "nil", flushes |-> 0]
        ELSE With(Logger_flush(l, sk), LAMBDA f :
            IF f.err # "nil"
            THEN [logger |-> f.logger, sink |-> f.sink, err |-> f.err, flushes |-> 1]
            ELSE With(Segment_Write(f.logger.seg, p, now), LAMBDA w2 :
                IF w2.err # "ErrNotEnoughSpace"
                THEN [logger |-> [f.logger EXCEPT !.seg = w2.seg],
                      sink |-> f.sink, err |-> "nil", flushes |-> 1]
                \* The fresh segment rejects p too: every further round
                \* flushes an empty segment and jumps back.
                ELSE [logger |-> f.logger, sink |-> f.sink,
                      err |-> "hang", flushes |-> 2])))

\* Logger.Write: [logger, sink, err, flushes]
Logger_Write(l, sk, p, now) ==
    IF ToUint(Len(p)) > l.segSize
    THEN [logger |-> l, sink |-> sk, err |-> "ErrTooBig", flushes |-> 0]
    ELSE IF l.closed
    THEN [logger |-> l, sink |-> sk, err |-> "ErrLoggerClosed", flushes |-> 0]
    ELSE With(Segment_Write(l.seg, p, now), LAMBDA w1 :
        IF w1.err # "ErrNotEnoughSpace"
        THEN [logger |-> [l EXCEPT !.seg = w1.seg], sink |-> sk,
              err |-> "nil", flushes |-> 0]
        ELSE With(Logger_flush(l, sk), LAMBDA f :
            IF f.err # "nil"
            THEN [logger |-> f.logger, sink |-> f.sink, err |-> f.err, flushes |-> 1]
            ELSE With(Segment_Write(f.logger.seg, p, now), LAMBDA w2 :
                IF w2.err # "ErrNotEnoughSpace"
                THEN [logger |-> [f.logger EXCEPT !.seg = w2.seg],
                      sink |-> f.sink, err |-> "nil", flushes |-> 1]
                \* The fresh segment rejects p too: every further round
                \* flushes an empty segment and jumps back.
                ELSE [logger |-> f.logger, sink |-> f.sink,
                      err |-> "hang", flushes |-> 2])))

\* Logger.Flush without the test of l.closed.
Logger_Flush_Unguarded(l, sk) == Logger_flush(l, sk)

\* Logger.Flush: [logger, sink, err]
Logger_Flush(l, sk) ==
    IF l.closed THEN [logger |-> l, sink |-> sk, err |-> "ErrLoggerClosed"]
    ELSE Logger_flush(l, sk)

\* Logger.Close without the test of l.closed.
Logger_Close_Unguarded(l, sk) ==
    With(Logger_flush(l, sk), LAMBDA f :
        IF f.err # "nil"
        THEN [logger |-> f.logger, sink |-> f.sink, err |-> "flush",
              flushes |-> 1, closes |-> 0]
        ELSE With(Sink_Close(f.sink), LAMBDA c :
            IF c.err # "nil"
            THEN [logger |-> f.logger, sink |-> c.sink, err |-> "close sink",
                  flushes |-> 1, closes |-> 1]
            ELSE [logger |-> [f.logger EXCEPT !.closed = TRUE],
                  sink |-> c.sink, err |-> "nil", flushes |-> 1, closes |-> 1]))

\* Logger.Close: [logger, sink, err, flushes, closes]; flushes and closes
\* count the calls of l.flush() and of l.sink.Close().
Logger_Close(l, sk) ==
    IF l.closed
    THEN [logger |-> l, sink |-> sk, err |-> "nil", flushes |-> 0, closes |-> 0]
    ELSE With(Logger_flush(l, sk), LAMBDA f :
        IF f.err # "nil"
        THEN [logger |-> f.logger, sink |-> f.sink, err |-> "flush",
              flushes |-> 1, closes |-> 0]
        ELSE With(Sink_Close(f.sink), LAMBDA c :
            IF c.err # "nil"
            THEN [logger |-> f.logger, sink |-> c.sink, err |-> "close sink",
                  flushes |-> 1, closes |-> 1]
            ELSE [logger |-> [f.logger EXCEPT !.closed = TRUE],
                  sink |-> c.sink, err |-> "nil", flushes |-> 1, closes |-> 1]))

\* Logger.Truncate: [logger, sink, err]
Logger_Truncate(l, sk, offset) ==
    With(Sink_Truncate(sk, offset), LAMBDA t :
        IF t.err # "nil" THEN [logger |-> l, sink |-> t.sink, err |-> t.err]
        ELSE [logger |-> [l EXCEPT !.seg = Segment_Truncate(@, offset)],
              sink |-> t.sink, err |-> "nil"])

(***************************************************************************)
(* Reader (reader.go).  A Reader is [made, off, seg, err] plus history     *)
(* fields: out, the chunks Data()/Offset() showed after each Next() that   *)
(* returned true; res, the outcome of the last Next(); from, the offset    *)
(* handed to NewReaderOffset; at, the number of Write calls and of Sink    *)
(* segments when the Reader was obtained; and gen, the number of Readers   *)
(* that were used and dropped before this one.                             *)
(***************************************************************************)
NoReader ==
    [made |-> FALSE, off |-> ZeroOffset, seg |-> NilSeg, err |-> "nil",
     out |-> << >>, res |-> "none", from |-> ZeroOffset,
     at |-> [nw |-> 0, ns |-> 0], gen |-> 0]

NewReaderOffset(offset) ==
    [made |-> TRUE, off |-> offset, seg |-> NilSeg, err |-> "nil",
     out |-> << >>, res |-> "new", from |-> offset,
     at |-> [nw |-> 0, ns |-> 0], gen |-> 0]

\* The Segment a handle points to, and storing a Segment through a handle.
HandleSeg(sk, h) == IF h.tag = "ref" THEN sk.heap[h.id] ELSE h.val
HandlePut(sk, h, s) ==
    IF h.tag = "ref" THEN [sink |-> [sk EXCEPT !.heap[h.id] = s], h |-> h]
    ELSE [sink |-> sk, h |-> OwnSeg(s)]

\* Reader.loadSegment: io.EOF becomes (nil, nil).  [h, err]
Reader_loadSegment(sk, off) ==
    With(Sink_LoadSegment(sk, off),
         LAMBDA r : IF r.err = "EOF" THEN [h |-> NilSeg, err |-> "nil"] ELSE r)

\* One pass through the label NextDataChunk: r.seg.Next() and, when it
\* returns true, r.off = r.seg.CurrentReadOffset().
\* [rd, sink, res], res "true", "exhausted" or "panic".
Reader_advance(rd, sk) ==
    IF rd.seg.tag = "nil" THEN [rd |-> rd, sink |-> sk, res |-> "panic"]
    ELSE With(Segment_Next(HandleSeg(sk, rd.seg)), LAMBDA n :
         With(HandlePut(sk, rd.seg, n.seg), LAMBDA put :
             IF ~n.ok THEN [rd |-> rd, sink |-> sk, res |-> "exhausted"]
             ELSE IF ~CursorInRange(n.seg)
             THEN [rd |-> [rd EXCEPT !.seg = put.h], sink |-> put.sink, res |-> "panic"]
             ELSE [rd |-> [rd EXCEPT !.seg = put.h,
                                     !.off = Segment_CurrentReadOffset(n.seg)],
                   sink |-> put.sink, res |-> "true"]))

\* Reader.Next: [rd, sink, res], res "true", "false", "panic" or "hang"
\* (the goto loop reloading a segment that has no further chunk).
Reader_Next(rd, sk) ==
    With(IF rd.seg.tag = "nil" THEN Reader_loadSegment(sk, rd.off)
         ELSE [h |-> rd.seg, err |-> "nil"], LAMBDA first :
        IF first.err = "panic" THEN [rd |-> rd, sink |-> sk, res |-> "panic"]
        ELSE IF first.err # "nil"
        THEN [rd |-> [rd EXCEPT !.err = first.err], sink |-> sk, res |-> "false"]
        ELSE With([rd EXCEPT !.seg = first.h], LAMBDA rd1 :
             With(Reader_advance(rd1, sk), LAMBDA a1 :
                 IF a1.res # "exhausted" THEN a1
                 ELSE With(Reader_loadSegment(sk, rd1.off + 1), LAMBDA ld :
                          IF ld.err = "panic"
                          THEN [rd |-> rd1, sink |-> sk, res |-> "panic"]
                          ELSE IF ld.err # "nil"
                          THEN [rd |-> [rd1 EXCEPT !.err = ld.err], sink |-> sk,
                                res |-> "false"]
                          ELSE IF ld.h.tag = "nil"
                          THEN [rd |-> rd1, sink |-> sk, res |-> "false"]
                          ELSE With([rd1 EXCEPT !.seg = ld.h], LAMBDA rd2 :
                               With(Reader_advance(rd2, sk), LAMBDA a2 :
                                   IF a2.res = "exhausted"
                                   THEN [rd |-> rd2, sink |-> sk, res |-> "hang"]
                                   ELSE a2))))))

\* Reader.Data
Reader_Data(rd, sk) == Segment_Chunk(HandleSeg(sk, rd.seg)).data

\* Reader.Offset
Reader_Offset(rd) == rd.off

\* Reader.Error
Reader_Error(rd) == rd.err

(***************************************************************************)
(* The state machine: one Logger over one Sink, with Readers.              *)
(***************************************************************************)
VARIABLES
    clock,      \* time.Now(), the value NewOffset() returns
    logger,     \* the Logger
    sink,       \* the Logger's Sink and its storage
    readers,    \* the Readers obtained from the Logger
    crashed,    \* a call panicked
    stuck,      \* a Logger.Write spins forever holding Logger.mu
    sg,         \* a Segment used on its own (SpecSegment)
    last,       \* history: the last call, its arguments and its result
    written,    \* history: the chunks appended by successful Logger.Write calls
    nwrites,    \* history: number of Logger.Write calls
    ntruncs,    \* history: number of Truncate calls
    truncated,  \* history: the offsets handed to Logger.Truncate
    wire,       \* a value put through an encoding and back (SpecChunk, SpecWire)
    helper      \* the goroutine running walutil.FlushInterval (SpecFlushInterval)

\* Nothing encoded yet.
\*   op            the last step: "none", "newChunkOffset", "MarshalText",
\*                 "UnmarshalText", "WriteTo", "ReadFrom"
\*   chunk, back   the chunk marshalled, the chunk unmarshalled
\*   text          the bytes MarshalText returned / WriteTo wrote
\*   ok            UnmarshalText / ReadFrom returned a nil error
\*   n, size       what WriteTo and EncodedSize returned for the Segment sg
\*   seg, m        the Segment ReadFrom filled, and what ReadFrom returned
NoWire ==
    [op |-> "none", chunk |-> newChunkOffset(<< >>, ZeroOffset), text |-> << >>,
     ok |-> TRUE, back |-> newChunkOffset(<< >>, ZeroOffset),
     n |-> 0, size |-> 0, seg |-> ZeroSegment, m |-> 0]

\* FlushInterval has not been called.
\*   pc       where the goroutine is: "off"; "range", receiving from timer.C
\*            in the for-range; "drain", receiving from timer.C after
\*            timer.Stop() returned false inside the loop; "exit", the same
\*            after the loop; "done", returned
\*   timer    "armed"; "fired", expired with its value waiting in timer.C;
\*            "spent", expired and the value received; "stopped"
\*   flushes  the calls of logger.Flush() it made
\*   errs     the errors handed to onError
\*   closed   a Flush() returned ErrLoggerClosed
NoHelper ==
    [pc |-> "off", timer |-> "stopped", flushes |-> 0, errs |-> << >>,
     closed |-> FALSE]

vars == <<clock, logger, sink, readers, crashed, stuck, sg, last, written, nwrites, ntruncs, truncated, wire, helper>>

\* time.Now().UnixNano() is far from the zero offset: no chunk is stamped
\* ZeroOffset or ZeroOffset + 1.
FirstStamp == ZeroOffset + 2

\* The smallest segment size whose conversion to a signed word is negative
\* (2^63 in the program's 64-bit words).
HugeCapacity == 2 ^ (WordBits - 1)

\* Configured segment sizes (the SegmentSize option takes any uint64).
Capacities == {10, 20, HugeCapacity}
\* Payloads handed to Write: a byte repeated.
PayloadBytes == {65}
PayloadLens == {0, 5, 15, 21}
\* The payloads of the Write call that follows k earlier ones: the byte moves
\* on with every call, so that the chunks of different calls differ.
PayloadsOf(k) == {Rep(b + k, n) : b \in PayloadBytes, n \in PayloadLens}
Payloads == PayloadsOf(0)
\* Offsets handed to Truncate.
Offsets == {ZeroOffset} \cup (FirstStamp..(MaxClock + 1))
\* Offsets handed to NewReaderOffset: the zero offset of NewReader, one
\* offset newer than the first stamp and one newer than every stamp.
ReaderStarts == {ZeroOffset, FirstStamp + 1, MaxClock + 1}
ReaderIds == 1..NumReaders

\* closes: the calls of Sink.Close() the call made (Close only).
Call(op, p, o, r, res, flushes) ==
    [op |-> op, p |-> p, o |-> o, r |-> r, res |-> res, flushes |-> flushes,
     closes |-> 0]

Init ==
    /\ clock = FirstStamp
    /\ \E c \in Capacities : logger = New(c)
    /\ sink \in {NewMemorySink, NewDirectorySink(NoFiles)}
    /\ readers = [r \in ReaderIds |-> NoReader]
    /\ crashed = FALSE
    /\ stuck = FALSE
    /\ sg = ZeroSegment
    /\ last = Call("init", << >>, 0, 0, "nil", 0)
    /\ written = << >>
    /\ nwrites = 0
    /\ ntruncs = 0
    /\ truncated = {}
    /\ wire = NoWire
    /\ helper = NoHelper

\* The wall clock advances (it never goes back).
Tick ==
    /\ ~crashed
    /\ clock < MaxClock
    /\ clock' = clock + 1
    /\ UNCHANGED <<logger, sink, readers, crashed, stuck, sg, last, written, nwrites, ntruncs, truncated, wire, helper>>

\* logger.Write(p)
DoWrite ==
    /\ ~crashed /\ ~stuck
    /\ nwrites < MaxWrites
    /\ \E p \in PayloadsOf(nwrites) :
         \E w \in {Logger_Write(logger, sink, p, clock)} :
             /\ logger' = w.logger
             /\ sink' = w.sink
             /\ stuck' = (w.err = "hang")
             /\ written' = IF w.err = "nil" /\ Len(p) > 0
                           THEN Append(written, newChunkOffset(p, clock))
                           ELSE written
             /\ last' = Call("Write", p, 0, 0, w.err, w.flushes)
    /\ nwrites' = nwrites + 1
    /\ UNCHANGED <<clock, readers, crashed, sg, ntruncs, truncated, wire, helper>>

\* logger.Flush()
DoFlush ==
    /\ ~crashed /\ ~stuck
    /\ \E f \in {Logger_Flush(logger, sink)} :
           /\ logger' = f.logger
           /\ sink' = f.sink
           /\ last' = Call("Flush", << >>, 0, 0, f.err, 0)
    /\ UNCHANGED <<clock, readers, crashed, stuck, sg, written, nwrites, ntruncs, truncated, wire, helper>>

\* logger.Close()
DoClose ==
    /\ ~crashed /\ ~stuck
    /\ \E c \in {Logger_Close(logger, sink)} :
           /\ logger' = c.logger
           /\ sink' = c.sink
           /\ last' = [Call("Close", << >>, 0, 0, c.err, c.flushes)
                           EXCEPT !.closes = c.closes]
    /\ UNCHANGED <<clock, readers, crashed, stuck, sg, written, nwrites, ntruncs, truncated, wire, helper>>

\* logger.Truncate(o)
DoTruncate ==
    /\ ~crashed /\ ~stuck
    /\ ntruncs < MaxTruncates
    /\ \E o \in Offsets :
         \E t \in {Logger_Truncate(logger, sink, o)} :
             /\ logger' = t.logger
             /\ sink' = t.sink
             /\ crashed' = (t.err = "panic")
             /\ last' = Call("Truncate", << >>, o, 0, t.err, 0)
    /\ truncated' = truncated \cup {last'.o}
    /\ ntruncs' = ntruncs + 1
    /\ UNCHANGED <<clock, readers, stuck, sg, written, nwrites, wire, helper>>

\* r := logger.NewReaderOffset(o), logger.NewReader() being
\* logger.NewReaderOffset(ZeroOffset): the Readers are obtained one after
\* the other
DoNewReader ==
    /\ ~crashed
    /\ \E r \in ReaderIds, o \in ReaderStarts :
         /\ ~readers[r].made
         /\ \A q \in ReaderIds : q < r => readers[q].made
         /\ readers' = [readers EXCEPT ![r] =
                           [NewReaderOffset(o) EXCEPT
                              !.at = [nw |-> nwrites, ns |-> Sink_NumSegments(sink)]]]
         /\ last' = Call("NewReader", << >>, o, r, "nil", 0)
    /\ UNCHANGED <<clock, logger, sink, crashed, stuck, sg, written, nwrites, ntruncs, truncated, wire, helper>>

\* r.Next(), followed by r.Data() and r.Offset() when it returned true
DoNext ==
    /\ ~crashed
    /\ \E r \in ReaderIds :
         /\ readers[r].made
         /\ readers[r].res # "hang"
         /\ \E n \in {Reader_Next(readers[r], sink)} :
                /\ sink' = n.sink
                /\ crashed' = (n.res = "panic")
                /\ readers' =
                     [readers EXCEPT ![r] =
                        [n.rd EXCEPT !.res = n.res,
                                     !.out = IF n.res = "true"
                                             THEN Append(@, newChunkOffset(
                                                      Reader_Data(n.rd, n.sink),
                                                      Reader_Offset(n.rd)))
                                             ELSE @]]
                /\ last' = Call("Next", << >>, 0, r, n.res, 0)
    /\ UNCHANGED <<clock, logger, stuck, sg, written, nwrites, ntruncs, truncated, wire, helper>>

Next == Tick \/ DoWrite \/ DoFlush \/ DoClose \/ DoTruncate \/ DoNewReader \/ DoNext

Spec == Init /\ [][Next]_vars

(***************************************************************************)
(* A Segment used on its own: NewSegmentSize(c), then Write, Next and      *)
(* Truncate in any order while the clock advances.                         *)
(***************************************************************************)
SegCapacities == {20, 40}

SegInit ==
    /\ clock = FirstStamp
    /\ logger = New(20)
    /\ sink = NewMemorySink
    /\ readers = [r \in ReaderIds |-> NoReader]
    /\ crashed = FALSE
    /\ stuck = FALSE
    /\ \E c \in SegCapacities : sg = NewSegmentSize(c)
    /\ last = Call("init", << >>, 0, 0, "nil", 0)
    /\ written = << >>
    /\ nwrites = 0
    /\ ntruncs = 0
    /\ truncated = {}
    /\ wire = NoWire
    /\ helper = NoHelper

\* sg.Write(p)
SegWrite ==
    /\ ~crashed
    /\ \E p \in Payloads :
         \E w \in {Segment_Write(sg, p, clock)} :
             /\ sg' = w.seg
             /\ last' = Call("SegWrite", p, 0, 0, w.err, 0)
    /\ UNCHANGED <<clock, logger, sink, readers, crashed, stuck, written, nwrites, ntruncs, truncated, wire, helper>>

\* sg.Next(), followed by sg.Chunk() when it returned true
SegNextChunk ==
    /\ ~crashed
    /\ \E n \in {Segment_Next(sg)} :
           /\ sg' = n.seg
           /\ crashed' = (n.ok /\ ~CursorInRange(n.seg))
           /\ last' = Call("SegNext", << >>, 0, 0, IF n.ok THEN "true" ELSE "false", 0)
    /\ UNCHANGED <<clock, logger, sink, readers, stuck, written, nwrites, ntruncs, truncated, wire, helper>>

\* sg.Truncate(o)
SegTruncate ==
    /\ ~crashed
    /\ \E o \in Offsets :
           /\ sg' = Segment_Truncate(sg, o)
           /\ last' = Call("SegTruncate", << >>, o, 0, "nil", 0)
    /\ UNCHANGED <<clock, logger, sink, readers, crashed, stuck, written, nwrites, ntruncs, truncated, wire, helper>>

SegStep == Tick \/ SegWrite \/ SegNextChunk \/ SegTruncate

SpecSegment == SegInit /\ [][SegStep]_vars

(***************************************************************************)
(* A Sink used on its own: a Segment sg is filled by Write calls while the *)
(* clock advances and handed to sink.WriteSegment, a new Segment taking    *)
(* its place; Analyze and LoadSegment are called in between.               *)
(***************************************************************************)
\* Chunks written to a Segment before it is handed on or serialized.
MaxSegChunks == 2
MaxSinkSegments == 3
SinkSegCapacity == 20

SinkInit ==
    /\ clock = FirstStamp
    /\ logger = New(20)
    /\ sink \in {NewMemorySink, NewDirectorySink(NoFiles)}
    /\ readers = [r \in ReaderIds |-> NoReader]
    /\ crashed = FALSE
    /\ stuck = FALSE
    /\ sg = NewSegmentSize(SinkSegCapacity)
    /\ last = Call("init", << >>, 0, 0, "nil", 0)
    /\ written = << >>
    /\ nwrites = 0
    /\ ntruncs = 0
    /\ truncated = {}
    /\ wire = NoWire
    /\ helper = NoHelper

\* sg.Write("A")
SinkFill ==
    /\ ~crashed
    /\ Len(sg.chunks) < MaxSegChunks
    /\ \E w \in {Segment_Write(sg, <<65>>, clock)} :
           /\ sg' = w.seg
           /\ last' = Call("SegWrite", <<65>>, 0, 0, w.err, 0)
    /\ UNCHANGED <<clock, logger, sink, readers, crashed, stuck, written, nwrites, ntruncs, truncated, wire, helper>>

\* sink.WriteSegment(sg); sg = NewSegmentSize(...)
SinkWriteSegment ==
    /\ ~crashed
    /\ Sink_NumSegments(sink) < MaxSinkSegments
    /\ \E w \in {Sink_WriteSegment(sink, sg)} :
           /\ sink' = w.sink
           /\ last' = Call("WriteSegment", << >>, 0, 0, w.err, 0)
    /\ sg' = NewSegmentSize(SinkSegCapacity)
    /\ UNCHANGED <<clock, logger, readers, crashed, stuck, written, nwrites, ntruncs, truncated, wire, helper>>

\* sink.Analyze()
SinkAnalyze ==
    /\ ~crashed
    /\ \E a \in {Sink_Analyze(sink)} :
           /\ sink' = a.sink
           /\ crashed' = (a.err = "panic")
           /\ last' = Call("Analyze", << >>, 0, 0, a.err, 0)
    /\ UNCHANGED <<clock, logger, readers, stuck, sg, written, nwrites, ntruncs, truncated, wire, helper>>

\* The chunks the loop `for s.Next() { c := s.Chunk() }` visits.
RECURSIVE Iterate(_)
Iterate(s) ==
    With(Segment_Next(s), LAMBDA n :
        IF ~n.ok \/ ~CursorInRange(n.seg) THEN << >>
        ELSE <<Segment_Chunk(n.seg)>> \o Iterate(n.seg))

\* seg, err := sink.LoadSegment(o); last.seg is seg and last.lim is
\* seg.Limits()
SinkLoadSegment ==
    /\ ~crashed
    /\ \E o \in Offsets :
         \E l \in {Sink_LoadSegment(sink, o)} :
             /\ crashed' = (l.err = "panic")
             /\ last' = [op |-> "LoadSegment", o |-> o, res |-> l.err,
                         seg |-> IF l.err = "nil" THEN HandleSeg(sink, l.h)
                                 ELSE ZeroSegment,
                         lim |-> IF l.err = "nil"
                                 THEN Segment_Limits(HandleSeg(sink, l.h))
                                 ELSE <<ZeroOffset, ZeroOffset>>]
    /\ UNCHANGED <<clock, logger, sink, readers, stuck, sg, written, nwrites, ntruncs, truncated, wire, helper>>

SinkStep == Tick \/ SinkFill \/ SinkWriteSegment \/ SinkAnalyze \/ SinkLoadSegment

SpecSink == SinkInit /\ [][SinkStep]_vars

(***************************************************************************)
(* A DirectorySink whose process may die half-way through a file           *)
(* operation; a new DirectorySink is then opened on the directory, whose   *)
(* index is empty until Analyze is called.                                 *)
(***************************************************************************)
CrashInit ==
    /\ SinkInit
    /\ sink.kind = "dir"

\* The process dies in DirectorySink.writeSegment after the segment file is
\* written and before writeChecksum creates its .CHECKSUM sibling.
CrashInWriteSegment ==
    /\ ~crashed
    /\ sink.kind = "dir"
    /\ sg.chunks # << >>
    /\ Cardinality(DOMAIN sink.disk) < MaxSinkSegments
    /\ sink' = NewDirectorySink(FileWrite(sink.disk, fmtSegFileName(sg), Segment_WriteTo(sg)))
    /\ sg' = NewSegmentSize(SinkSegCapacity)
    /\ last' = Call("CrashInWriteSegment", << >>, 0, 0, "nil", 0)
    /\ UNCHANGED <<clock, logger, readers, crashed, stuck, written, nwrites, ntruncs, truncated, wire, helper>>

\* The process dies in DirectorySink.deleteSegmentFile, called by Truncate
\* for the first segment of the index, between the two os.Remove calls.
CrashInDeleteSegmentFile ==
    /\ ~crashed
    /\ sink.kind = "dir"
    /\ Len(sink.dpaths) > 0
    /\ sink.dpaths[1] \in DOMAIN sink.disk
    /\ sink' = NewDirectorySink(FileRemove(sink.disk, sink.dpaths[1]))
    /\ last' = Call("CrashInDeleteSegmentFile", << >>, 0, 0, "nil", 0)
    /\ UNCHANGED <<clock, logger, readers, crashed, stuck, sg, written, nwrites, ntruncs, truncated, wire, helper>>

CrashStep ==
    \/ Tick \/ SinkFill \/ SinkWriteSegment \/ SinkAnalyze
    \/ CrashInWriteSegment \/ CrashInDeleteSegmentFile

SpecCrash == CrashInit /\ [][CrashStep]_vars

(***************************************************************************)
(* Goroutines calling Write, Flush and Close of one Logger concurrently.   *)
(* helper holds l.mu (mu, the goroutine holding it, 0 for none), the       *)
(* number of calls begun, and for every goroutine the place it has reached *)
(* in its call: "idle" between calls, "lock" before l.mu.Lock(), "body"    *)
(* with the mutex held, "append" before l.seg.Write(p) and "rotate" before *)
(* l.flush() in Write's WriteData loop.  Every step reads and writes the   *)
(* Logger's fields as the statement it stands for does.                    *)
(***************************************************************************)
NumGoroutines == 2
MaxCalls == 3
Goroutines == 1..NumGoroutines

\* Segment sizes making the second Write of five bytes rotate, or not.
ConcCapacities == {8, 10}

IdleGo == [pc |-> "idle", op |-> "none", p |-> << >>]

ConcInit ==
    /\ clock = FirstStamp
    /\ \E c \in ConcCapacities : logger = New(c)
    /\ sink \in {NewMemorySink, NewDirectorySink(NoFiles)}
    /\ readers = [r \in ReaderIds |-> NoReader]
    /\ crashed = FALSE
    /\ stuck = FALSE
    /\ sg = ZeroSegment
    /\ last = Call("init", << >>, 0, 0, "nil", 0)
    /\ written = << >>
    /\ nwrites = 0
    /\ ntruncs = 0
    /\ truncated = {}
    /\ wire = NoWire
    /\ helper = [mu |-> 0, calls |-> 0, g |-> [i \in Goroutines |-> IdleGo]]

\* The goroutine returns from its call with res; the deferred l.mu.Unlock()
\* has run if it held the mutex.
GoReturn(i, res) ==
    /\ helper' = [helper EXCEPT !.mu = IF @ = i THEN 0 ELSE @, !.g[i] = IdleGo]
    /\ last' = Call(helper.g[i].op, helper.g[i].p, 0, i, res, 0)

\* The goroutine goes on to the place pc of its call.
GoTo(i, pc) ==
    /\ helper' = [helper EXCEPT !.g[i].pc = pc]
    /\ last' = Call("step", << >>, 0, i, "nil", 0)

\* go l.Write(p) / go l.Flush() / go l.Close(): Write tests len(p) against
\* l.segSize before it takes the mutex.
GoCall ==
    /\ helper.calls < MaxCalls
    /\ \E i \in Goroutines :
         /\ helper.g[i].pc = "idle"
         /\ \/ /\ nwrites < MaxWrites
               /\ nwrites' = nwrites + 1
               /\ \E p \in PayloadsOf(nwrites) :
                    IF ToUint(Len(p)) > logger.segSize
                    THEN /\ helper' = [helper EXCEPT !.calls = @ + 1]
                         /\ last' = Call("Write", p, 0, i, "ErrTooBig", 0)
                    ELSE /\ helper' = [helper EXCEPT !.calls = @ + 1,
                                          !.g[i] = [pc |-> "lock", op |-> "Write", p |-> p]]
                         /\ last' = Call("step", << >>, 0, i, "nil", 0)
            \/ /\ \E op \in {"Flush", "Close"} :
                    helper' = [helper EXCEPT !.calls = @ + 1,
                                  !.g[i] = [pc |-> "lock", op |-> op, p |-> << >>]]
               /\ last' = Call("step", << >>, 0, i, "nil", 0)
               /\ UNCHANGED nwrites
    /\ UNCHANGED <<clock, logger, sink, readers, crashed, stuck, sg, written, ntruncs, truncated, wire>>

\* l.mu.Lock() returning
GoLock ==
    /\ \E i \in Goroutines :
         /\ helper.g[i].pc = "lock"
         /\ helper.mu = 0
         /\ helper' = [helper EXCEPT !.mu = i, !.g[i].pc = "body"]
         /\ last' = Call("step", << >>, 0, i, "nil", 0)
    /\ UNCHANGED <<clock, logger, sink, readers, crashed, stuck, sg, written, nwrites, ntruncs, truncated, wire>>

\* With the mutex held: Write tests l.closed; Flush and Close run to their
\* return.
GoBody ==
    /\ \E i \in Goroutines :
         /\ helper.g[i].pc = "body"
         /\ IF helper.g[i].op = "Write"
            THEN /\ IF logger.closed THEN GoReturn(i, "ErrLoggerClosed")
                    ELSE GoTo(i, "append")
                 /\ UNCHANGED <<logger, sink>>
            ELSE \E c \in {IF helper.g[i].op = "Flush" THEN Logger_Flush(logger, sink)
                           ELSE Logger_Close(logger, sink)} :
                    /\ logger' = c.logger
                    /\ sink' = c.sink
                    /\ GoReturn(i, c.err)
    /\ UNCHANGED <<clock, readers, crashed, stuck, sg, written, nwrites, ntruncs, truncated, wire>>

\* WriteData: _, err := l.seg.Write(p); Write returns nil unless the
\* segment has not enough space.
GoAppend ==
    /\ \E i \in Goroutines :
         /\ helper.g[i].pc = "append"
         /\ \E w \in {Segment_Write(logger.seg, helper.g[i].p, clock)} :
              IF w.err = "ErrNotEnoughSpace"
              THEN /\ GoTo(i, "rotate")
                   /\ UNCHANGED <<logger, written>>
              ELSE /\ logger' = [logger EXCEPT !.seg = w.seg]
                   /\ written' = IF Len(helper.g[i].p) > 0
                                 THEN Append(written, newChunkOffset(helper.g[i].p, clock))
                                 ELSE written
                   /\ GoReturn(i, "nil")
    /\ UNCHANGED <<clock, sink, readers, crashed, stuck, sg, nwrites, ntruncs, truncated, wire>>

\* if err := l.flush(); err != nil { return err }; goto WriteData
GoRotate ==
    /\ \E i \in Goroutines :
         /\ helper.g[i].pc = "rotate"
         /\ \E f \in {Logger_flush(logger, sink)} :
              /\ logger' = f.logger
              /\ sink' = f.sink
              /\ IF f.err # "nil" THEN GoReturn(i, f.err) ELSE GoTo(i, "append")
    /\ UNCHANGED <<clock, readers, crashed, stuck, sg, written, nwrites, ntruncs, truncated, wire>>

ConcNext == Tick \/ GoCall \/ GoLock \/ GoBody \/ GoAppend \/ GoRotate

SpecConc == ConcInit /\ [][ConcNext]_vars

(***************************************************************************)
(* A goroutine calling WriteSegment of a DirectorySink while another one   *)
(* calls Analyze.  helper holds the place the writing goroutine has        *)
(* reached: "idle" between calls, "file" before writeSegment creates the   *)
(* segment file, "checksum" before writeChecksum creates the sibling,      *)
(* "index" before ds.mu.Lock() and the two appends; seg is the segment it  *)
(* was handed.  Analyze holds ds.mu from its first statement to its return *)
(* and is one step.                                                        *)
(***************************************************************************)
RaceInit ==
    /\ clock = FirstStamp
    /\ logger = New(20)
    /\ sink = NewDirectorySink(NoFiles)
    /\ readers = [r \in ReaderIds |-> NoReader]
    /\ crashed = FALSE
    /\ stuck = FALSE
    /\ sg = NewSegmentSize(SinkSegCapacity)
    /\ last = Call("init", << >>, 0, 0, "nil", 0)
    /\ written = << >>
    /\ nwrites = 0
    /\ ntruncs = 0
    /\ truncated = {}
    /\ wire = NoWire
    /\ helper = [pc |-> "idle", seg |-> ZeroSegment]

\* go sink.WriteSegment(sg); sg = NewSegmentSize(...): a segment without
\* chunks makes the call return at once.
RaceWriteSegment ==
    /\ ~crashed
    /\ helper.pc = "idle"
    /\ Len(sink.dpaths) < MaxSinkSegments
    /\ IF Segment_Limits(sg) = <<ZeroOffset, ZeroOffset>>
       THEN /\ helper' = helper
            /\ last' = Call("WriteSegment", << >>, 0, 0, "nil", 0)
       ELSE /\ helper' = [pc |-> "file", seg |-> sg]
            /\ last' = Call("step", << >>, 0, 0, "nil", 0)
    /\ sg' = NewSegmentSize(SinkSegCapacity)
    /\ UNCHANGED <<clock, logger, sink, readers, crashed, stuck, written, nwrites, ntruncs, truncated, wire>>

\* writeSegment: os.Create(name); seg.WriteTo(mw)
RaceSegmentFile ==
    /\ ~crashed
    /\ helper.pc = "file"
    /\ sink' = [sink EXCEPT !.disk = FileWrite(@, fmtSegFileName(helper.seg),
                                               Segment_WriteTo(helper.seg))]
    /\ helper' = [helper EXCEPT !.pc = "checksum"]
    /\ last' = Call("step", << >>, 0, 0, "nil", 0)
    /\ UNCHANGED <<clock, logger, readers, crashed, stuck, sg, written, nwrites, ntruncs, truncated, wire>>

\* writeChecksum: os.Create(name + ".CHECKSUM"); io.WriteString(...)
RaceChecksumFile ==
    /\ ~crashed
    /\ helper.pc = "checksum"
    /\ sink' = [sink EXCEPT !.disk = FileWrite(@, fmtSegFileName(helper.seg) \o ChecksumSuffix,
                                               ChecksumText(Segment_WriteTo(helper.seg)))]
    /\ helper' = [helper EXCEPT !.pc = "index"]
    /\ last' = Call("step", << >>, 0, 0, "nil", 0)
    /\ UNCHANGED <<clock, logger, readers, crashed, stuck, sg, written, nwrites, ntruncs, truncated, wire>>

\* ds.mu.Lock(); the two appends; ds.mu.Unlock(); return nil
RaceIndex ==
    /\ ~crashed
    /\ helper.pc = "index"
    /\ sink' = [sink EXCEPT !.dsegs = Append(@, Segment_Limits(helper.seg)),
                            !.dpaths = Append(@, fmtSegFileName(helper.seg))]
    /\ helper' = [pc |-> "idle", seg |-> ZeroSegment]
    /\ last' = Call("WriteSegment", << >>, 0, 0, "nil", 0)
    /\ UNCHANGED <<clock, logger, readers, crashed, stuck, sg, written, nwrites, ntruncs, truncated, wire>>

RaceStep ==
    \/ Tick \/ SinkFill \/ SinkAnalyze
    \/ RaceWriteSegment \/ RaceSegmentFile \/ RaceChecksumFile \/ RaceIndex

SpecRace == RaceInit /\ [][RaceStep]_vars

\* Readers used one after the other in the place of one.
MaxReaderGens == 1

\* A Reader whose Next() returned false is dropped and a new one takes its
\* place: r = NewReader(sink)
DoNewReaderAgain ==
    /\ ~crashed
    /\ \E r \in ReaderIds :
         /\ readers[r].made
         /\ readers[r].res = "false"
         /\ readers[r].gen < MaxReaderGens
         /\ readers' = [readers EXCEPT ![r] =
                           [NewReaderOffset(ZeroOffset) EXCEPT
                              !.at = [nw |-> nwrites, ns |-> Sink_NumSegments(sink)],
                              !.gen = readers[r].gen + 1]]
         /\ last' = Call("NewReaderAgain", << >>, ZeroOffset, r, "nil", 0)
    /\ UNCHANGED <<clock, logger, sink, crashed, stuck, sg, written, nwrites, ntruncs, truncated, wire, helper>>

\* Replay of a Sink filled that way: Readers are obtained and advanced
\* while segments of one or two chunks are handed to the Sink.
ReplayStep ==
    Tick \/ SinkFill \/ SinkWriteSegment \/ DoNewReader \/ DoNext \/ DoNewReaderAgain

SpecReplay == SinkInit /\ [][ReplayStep]_vars

(***************************************************************************)
(* A chunk put through its text encoding: newChunkOffset(d, o), then       *)
(* MarshalText, then UnmarshalText of the text into a new chunk.           *)
(***************************************************************************)
MaxChunkData == 4
ChunkBytes == {0, 65, 255}
ChunkData == UNION {[1..k -> ChunkBytes] : k \in 0..MaxChunkData}
\* Every Offset of the signed word.
AllOffsets == IntMin..IntMax

\* The Logger and the Sink at rest.
Idle ==
    /\ clock = FirstStamp
    /\ logger = New(20)
    /\ sink = NewMemorySink
    /\ readers = [r \in ReaderIds |-> NoReader]
    /\ crashed = FALSE
    /\ stuck = FALSE
    /\ last = Call("init", << >>, 0, 0, "nil", 0)
    /\ written = << >>
    /\ nwrites = 0
    /\ ntruncs = 0
    /\ truncated = {}
    /\ helper = NoHelper

IdleVars ==
    <<clock, logger, sink, readers, crashed, stuck, last, written, nwrites,
      ntruncs, truncated, helper>>

ChunkInit == Idle /\ sg = ZeroSegment /\ wire = NoWire

\* a := newChunkOffset(d, o)
ChunkNew ==
    /\ wire.op = "none"
    /\ \E d \in ChunkData, o \in AllOffsets :
           wire' = [NoWire EXCEPT !.op = "newChunkOffset",
                                  !.chunk = newChunkOffset(d, o)]
    /\ UNCHANGED <<IdleVars, sg>>

\* txt, _ := a.MarshalText()
ChunkMarshal ==
    /\ wire.op = "newChunkOffset"
    /\ wire' = [wire EXCEPT !.op = "MarshalText",
                            !.text = chunk_MarshalText(wire.chunk)]
    /\ UNCHANGED <<IdleVars, sg>>

\* b := new(chunk); err := b.UnmarshalText(txt)
ChunkUnmarshal ==
    /\ wire.op = "MarshalText"
    /\ \E u \in {chunk_UnmarshalText(wire.text)} :
           wire' = [wire EXCEPT !.op = "UnmarshalText", !.ok = u.ok, !.back = u.chunk]
    /\ UNCHANGED <<IdleVars, sg>>

ChunkStep == ChunkNew \/ ChunkMarshal \/ ChunkUnmarshal

SpecChunk == ChunkInit /\ [][ChunkStep]_vars

(***************************************************************************)
(* Two Offsets compared with Before, After and Equal.                      *)
(***************************************************************************)
OffsetInit == Idle /\ sg = ZeroSegment /\ wire = NoWire

\* a.Before(b), a.After(b), a.Equal(b) and b.Before(a)
OffsetCompare ==
    /\ wire.op = "none"
    /\ \E a, b \in AllOffsets :
           wire' = [op |-> "Compare", a |-> a, b |-> b,
                    before |-> Offset_Before(a, b),
                    after |-> Offset_After(a, b),
                    equal |-> Offset_Equal(a, b),
                    rbefore |-> Offset_Before(b, a)]
    /\ UNCHANGED <<IdleVars, sg>>

SpecOffset == OffsetInit /\ [][OffsetCompare]_vars

(***************************************************************************)
(* A Segment put through its serialization: chunks are written to sg, then *)
(* sg.WriteTo(buf) and sg.EncodedSize(), then ReadFrom(buf) on an empty    *)
(* Segment.                                                                *)
(***************************************************************************)
MaxWireData == 2
\* Payload bytes: the row separator of the serialization and 0xff.
WireBytes == {Newline, 255}
WirePayloads == UNION {[1..k -> WireBytes] : k \in 1..MaxWireData}
\* What time.Now() reads at a Write: offsets of different printed lengths.
WireStamps == {FirstStamp, 10, IntMax}
WireCapacity == 60

WireInit == Idle /\ sg = NewSegmentSize(WireCapacity) /\ wire = NoWire

\* sg.Write(p)
WireWrite ==
    /\ wire.op = "none"
    /\ Len(sg.chunks) < MaxSegChunks
    /\ \E p \in WirePayloads, now \in WireStamps :
           sg' = Segment_Write(sg, p, now).seg
    /\ UNCHANGED <<IdleVars, wire, helper>>

\* n, _ := sg.WriteTo(buf); size, _ := sg.EncodedSize()
WireWriteTo ==
    /\ wire.op = "none"
    /\ wire' = [wire EXCEPT !.op = "WriteTo",
                            !.text = Segment_WriteTo(sg),
                            !.n = Len(Segment_WriteTo(sg)),
                            !.size = Segment_EncodedSize(sg)]
    /\ UNCHANGED <<IdleVars, sg>>

\* t := NewSegment(); m, err := t.ReadFrom(buf)
WireReadFrom ==
    /\ wire.op = "WriteTo"
    /\ \E r \in {Segment_ReadFrom(NewSegmentSize(WireCapacity), wire.text)} :
           wire' = [wire EXCEPT !.op = "ReadFrom", !.ok = (r.err = "nil"),
                                !.seg = r.seg, !.m = r.n]
    /\ UNCHANGED <<IdleVars, sg>>

WireStep == WireWrite \/ WireWriteTo \/ WireReadFrom

SpecWire == WireInit /\ [][WireStep]_vars

(***************************************************************************)
(* walutil.FlushInterval run in its own goroutine next to the callers of   *)
(* a Logger over a DirectorySink whose directory may stop accepting new    *)
(* files.  The goroutine moves only by receiving from timer.C, at one of   *)
(* three places: the for-range, the drain after timer.Stop() inside the    *)
(* loop and the drain after the loop.                                      *)
(***************************************************************************)
\* Flush() calls the goroutine is followed for.
MaxHelperFlushes == 2

\* time.Timer.Stop: [timer, ok]; ok is true only when the call stopped a
\* timer that was still armed.
Timer_Stop(t) ==
    [timer |-> IF t = "armed" THEN "stopped" ELSE t, ok |-> (t = "armed")]

\* `if !timer.Stop() { <-timer.C }` reached with the timer in state t, then
\* done when the receive is not needed: [timer, blocked]
StopAndDrain(t) ==
    With(Timer_Stop(t), LAMBDA st : [timer |-> st.timer, blocked |-> ~st.ok])

FlushIntervalInit ==
    /\ clock = FirstStamp
    /\ logger = New(20)
    /\ sink = NewDirectorySink(NoFiles)
    /\ readers = [r \in ReaderIds |-> NoReader]
    /\ crashed = FALSE
    /\ stuck = FALSE
    /\ sg = ZeroSegment
    /\ last = Call("init", << >>, 0, 0, "nil", 0)
    /\ written = << >>
    /\ nwrites = 0
    /\ ntruncs = 0
    /\ truncated = {}
    /\ wire = NoWire
    /\ helper = NoHelper

\* os.Create starts failing in the Sink's directory.
DiskBreaks ==
    /\ sink.kind = "dir"
    /\ ~sink.broken
    /\ sink' = [sink EXCEPT !.broken = TRUE]
    /\ last' = Call("DiskBreaks", << >>, 0, 0, "nil", 0)
    /\ UNCHANGED <<clock, logger, readers, crashed, stuck, sg, written, nwrites, ntruncs, truncated, wire, helper>>

\* go FlushInterval(logger, d, onError), up to the for-range:
\* timer := time.NewTimer(d)
FlushIntervalStart ==
    /\ helper.pc = "off"
    /\ helper' = [helper EXCEPT !.pc = "range", !.timer = "armed"]
    /\ last' = Call("FlushInterval", << >>, 0, 0, "nil", 0)
    /\ UNCHANGED <<clock, logger, sink, readers, crashed, stuck, sg, written, nwrites, ntruncs, truncated, wire>>

\* The duration d has passed: the runtime sends the time on timer.C.
TimerFires ==
    /\ helper.timer = "armed"
    /\ helper' = [helper EXCEPT !.timer = "fired"]
    /\ last' = Call("TimerFires", << >>, 0, 0, "nil", 0)
    /\ UNCHANGED <<clock, logger, sink, readers, crashed, stuck, sg, written, nwrites, ntruncs, truncated, wire>>

\* The goroutine receives from timer.C and runs to its next receive or to
\* its return.  In the for-range: logger.Flush(); ErrLoggerClosed breaks out
\* of the loop, any other error goes to onError; then timer.Stop(), the
\* drain when it returned false, and timer.Reset(d).  In the drain inside
\* the loop: timer.Reset(d) and back to the for-range.  In the drain after
\* the loop: return.
FlushIntervalStep ==
    /\ helper.pc \in {"range", "drain", "exit"}
    /\ helper.timer = "fired"
    /\ helper.flushes < MaxHelperFlushes
    /\ IF helper.pc = "range"
       THEN \E f \in {Logger_Flush(logger, sink)} :
            \E sd \in {StopAndDrain("spent")} :
               /\ logger' = f.logger
               /\ sink' = f.sink
               /\ helper' =
                    [pc |-> IF f.err = "ErrLoggerClosed"
                            THEN (IF sd.blocked THEN "exit" ELSE "done")
                            ELSE (IF sd.blocked THEN "drain" ELSE "range"),
                     timer |-> IF f.err # "ErrLoggerClosed" /\ ~sd.blocked
                               THEN "armed" ELSE sd.timer,
                     flushes |-> helper.flushes + 1,
                     errs |-> IF f.err \notin {"nil", "ErrLoggerClosed"}
                              THEN Append(helper.errs, f.err) ELSE helper.errs,
                     closed |-> (f.err = "ErrLoggerClosed")]
               /\ last' = Call("FlushIntervalStep", << >>, 0, 0, f.err, 0)
       ELSE /\ helper' = IF helper.pc = "drain"
                         THEN [helper EXCEPT !.pc = "range", !.timer = "armed"]
                         ELSE [helper EXCEPT !.pc = "done", !.timer = "spent"]
            /\ last' = Call("FlushIntervalStep", << >>, 0, 0, "nil", 0)
            /\ UNCHANGED <<logger, sink>>
    /\ UNCHANGED <<clock, readers, crashed, stuck, sg, written, nwrites, ntruncs, truncated, wire>>

FlushIntervalNext ==
    DoWrite \/ DoClose \/ DiskBreaks \/ FlushIntervalStart \/ TimerFires \/ FlushIntervalStep

\* FlushIntervalStep can be taken: the goroutine is at a receive and the
\* timer's value is waiting in timer.C.
FlushIntervalReady ==
    /\ helper.pc \in {"range", "drain", "exit"}
    /\ helper.timer = "fired"
    /\ helper.flushes < MaxHelperFlushes

\* The timer fires when it is armed, and the goroutine is scheduled: weak
\* fairness of TimerFires and of FlushIntervalStep, the latter written out
\* with FlushIntervalReady for ENABLED <<FlushIntervalStep>>_vars.
SpecFlushInterval ==
    /\ FlushIntervalInit
    /\ [][FlushIntervalNext]_vars
    /\ WF_vars(TimerFires)
    /\ ([]<>(~FlushIntervalReady) \/ []<><<FlushIntervalStep>>_vars)

(***************************************************************************)
(* A Logger over a DirectorySink whose directory stops accepting new files *)
(* at some point: Write, Flush and Close while the clock advances.         *)
(***************************************************************************)
BrokenInit ==
    /\ clock = FirstStamp
    /\ \E c \in Capacities : logger = New(c)
    /\ sink = NewDirectorySink(NoFiles)
    /\ readers = [r \in ReaderIds |-> NoReader]
    /\ crashed = FALSE
    /\ stuck = FALSE
    /\ sg = ZeroSegment
    /\ last = Call("init", << >>, 0, 0, "nil", 0)
    /\ written = << >>
    /\ nwrites = 0
    /\ ntruncs = 0
    /\ truncated = {}
    /\ wire = NoWire
    /\ helper = NoHelper

BrokenNext == Tick \/ DoWrite \/ DoFlush \/ DoClose \/ DiskBreaks

SpecBroken == BrokenInit /\ [][BrokenNext]_vars

(***************************************************************************)
(* What a Sink stores, segment by segment: the Segment objects of a        *)
(* MemorySink, the decoded segment files of a DirectorySink.               *)
(***************************************************************************)
SegChunksAt(sk, i) ==
    IF sk.kind = "mem" THEN sk.heap[sk.msegs[i]].chunks
    ELSE IF sk.dpaths[i] \in DOMAIN sk.disk
         THEN Segment_ReadFrom(ZeroSegment, sk.disk[sk.dpaths[i]]).seg.chunks
         ELSE << >>

SinkChunks(sk) == Flatten([i \in 1..Sink_NumSegments(sk) |-> SegChunksAt(sk, i)])

\* The newest offset of segment i as the Sink knows it.
SegNewest(sk, i) ==
    IF sk.kind = "mem" THEN Segment_Limits(sk.heap[sk.msegs[i]])[2] ELSE sk.dsegs[i][2]

SegOldest(sk, i) ==
    IF sk.kind = "mem" THEN Segment_Limits(sk.heap[sk.msegs[i]])[1] ELSE sk.dsegs[i][1]

ChunksAfter(chunks, o) ==
    LET Newer(c) == c.off > o IN SelectSeq(chunks, Newer)

ChunksUpTo(chunks, o) ==
    LET Older(c) == c.off <= o IN SelectSeq(chunks, Older)

\* a is a subsequence of b.
RECURSIVE IsSubSeq(_, _)
IsSubSeq(a, b) ==
    IF a = << >> THEN TRUE
    ELSE IF b = << >> THEN FALSE
    ELSE IF a[1] = b[1] THEN IsSubSeq(Tail(a), Tail(b))
    ELSE IsSubSeq(a, Tail(b))

\* The step is a call of op: every call leaves the clock alone and records
\* itself in last; only Tick moves the clock.
Called(op) == clock' = clock /\ last'.op = op

\* A Reader that was obtained and has stopped: its last Next() did not
\* return true.
ReaderStopped(r) == readers[r].made /\ readers[r].res \notin {"new", "true"}

(***************************************************************************)
(* Claims about replay and truncation, under Spec.                         *)
(***************************************************************************)

\* C1: a Reader started at ZeroOffset on a Sink that holds the segments of
\* N >= 1 sequential non-empty writes (everything written is flushed, nothing
\* was truncated, and the Sink has not changed since the Reader was obtained)
\* stops only with Next() = false and Error() = nil, after having yielded
\* exactly the N written chunks in write order.
C1_ReplayYieldsEveryChunk ==
    \A r \in ReaderIds :
        (/\ ReaderStopped(r)
         /\ readers[r].from = ZeroOffset
         /\ written # << >>
         /\ logger.seg.chunks = << >>
         /\ ntruncs = 0
         /\ readers[r].at.nw = nwrites
         /\ readers[r].at.ns = Sink_NumSegments(sink))
        => (/\ readers[r].res = "false"
            /\ Reader_Error(readers[r]) = "nil"
            /\ readers[r].out = written)

\* The first segment Truncate(o) leaves in place: the first one whose newest
\* offset is not before o (0 when there is none).
FirstSurvivor(sk, o) ==
    LET keep == {i \in 1..Sink_NumSegments(sk) : SegNewest(sk, i) >= o}
    IN  IF keep = {} THEN 0 ELSE Min(keep)

\* C2: when Truncate(O) is called with O strictly inside the offset range of
\* the first surviving segment, afterwards that segment (now the Sink's
\* first) holds no chunk with offset <= O and the Sink's oldest offset is
\* greater than O.
C2_BoundarySegmentLosesPrefix ==
    [][(/\ Called("Truncate")
        /\ FirstSurvivor(sink, last'.o) > 0
        /\ SegOldest(sink, FirstSurvivor(sink, last'.o)) < last'.o
        /\ last'.o < SegNewest(sink, FirstSurvivor(sink, last'.o)))
       => (/\ Sink_NumSegments(sink') > 0
           /\ ChunksUpTo(SegChunksAt(sink', 1), last'.o) = << >>
           /\ Sink_Offsets(sink').first > last'.o)]_vars

\* C3: Truncate(O) removes exactly the segments whose newest offset was
\* before O (the Sink shrinks by their number), and at most one of the
\* segments left holds other chunks than before.
C3_RemovesExactlyOlderSegments ==
    [][Called("Truncate")
       => LET removed == Sink_NumSegments(sink) - Sink_NumSegments(sink')
          IN  /\ removed = Cardinality({i \in 1..Sink_NumSegments(sink) :
                                          SegNewest(sink, i) < last'.o})
              /\ Cardinality({j \in 1..Sink_NumSegments(sink') :
                                SegChunksAt(sink', j) # SegChunksAt(sink, j + removed)}) <= 1]_vars

\* C4: Truncate(O) on a Sink never removes or reorders a chunk whose offset
\* is greater than O: the chunks with offset > O stored before the call are
\* still stored after it, in the same relative order.
C4_TruncateKeepsNewerChunks ==
    [][Called("Truncate")
       => IsSubSeq(ChunksAfter(SinkChunks(sink), last'.o),
                   ChunksAfter(SinkChunks(sink'), last'.o))]_vars

\* A Truncate that returned, removed a flushed chunk and left a newer one.
C4_Witness ==
    /\ last.op = "Truncate"
    /\ last.res = "nil"
    /\ logger.seg.chunks = << >>
    /\ Len(SinkChunks(sink)) < Len(written)
    /\ ChunksAfter(SinkChunks(sink), last.o) # << >>

(***************************************************************************)
(* Claims about a Segment, under SpecSegment.                              *)
(***************************************************************************)

\* C5: Segment.Truncate(O) removes every chunk whose offset is <= O and
\* keeps exactly the chunks with offset > O in their order (an empty segment
\* when every chunk has offset <= O).
C5_SegmentTruncateDropsUpTo ==
    [][Called("SegTruncate") => sg'.chunks = ChunksAfter(sg.chunks, last'.o)]_vars

\* C6: the raw chunk lengths (offset width + payload length) held by a
\* Segment of capacity C never add up to more than C.
C6_RawSizeWithinCapacity == Segment_Size(sg) <= sg.size

\* C7: a Segment.Write whose payload is longer than the remaining capacity
\* returns ErrNotEnoughSpace and leaves the segment (chunks, chunk count,
\* read cursor) as it was.
C7_OverlongWriteRejected ==
    [][(Called("SegWrite") /\ Len(last'.p) > Segment_remaining(sg))
       => (last'.res = "ErrNotEnoughSpace" /\ sg' = sg)]_vars

(***************************************************************************)
(* Claims about the Logger, under Spec.                                    *)
(***************************************************************************)

\* C8: on an open Logger of capacity C, a Write whose payload (len <= C) the
\* active segment rejects for lack of space flushes exactly once: the Sink
\* gains one segment holding the chunks of the previous active segment, and
\* the payload is the only chunk of the fresh active segment.  With C = 20
\* and two 15-byte writes and nothing in between, the Sink holds no segment
\* after the first write and exactly one after the second.
C8_OverflowFlushesOnce ==
    [][Called("Write") =>
        /\ (/\ ~logger.closed
            /\ Len(last'.p) <= logger.segSize
            /\ Segment_Write(logger.seg, last'.p, clock).err = "ErrNotEnoughSpace")
           => (/\ last'.res = "nil"
               /\ last'.flushes = 1
               /\ Sink_NumSegments(sink') = Sink_NumSegments(sink) + 1
               /\ SegChunksAt(sink', Sink_NumSegments(sink')) = logger.seg.chunks
               /\ logger'.seg = [NewSegmentSize(logger.segSize) EXCEPT
                                   !.chunks = <<newChunkOffset(last'.p, clock)>>])
        /\ (/\ ~logger.closed
            /\ logger.segSize = 20
            /\ Len(last'.p) = 15
            /\ Sink_NumSegments(sink) = 0
            /\ written = logger.seg.chunks
            /\ Len(written) <= 1
            /\ \A k \in 1..Len(written) : Len(written[k].data) = 15)
           => Sink_NumSegments(sink') = Len(written)]_vars

\* The overflow scenario: a Logger of capacity 20, two successful 15-byte
\* writes, the second payload still in the active segment, no Truncate, no
\* Close, and Reader r, the only Reader, obtained with NewReader() after
\* both writes.
OverflowScenario(r) ==
    /\ logger.segSize = 20
    /\ ~logger.closed
    /\ ntruncs = 0
    /\ nwrites = 2
    /\ Len(written) = 2
    /\ Len(written[1].data) = 15
    /\ Len(written[2].data) = 15
    /\ logger.seg.chunks = <<written[2]>>
    /\ readers[r].made
    /\ readers[r].from = ZeroOffset
    /\ readers[r].at.nw = 2
    /\ \A q \in ReaderIds \ {r} : ~readers[q].made

\* C9 as stated: in the overflow scenario a Reader obtained afterward yields
\* both payloads, in write order.
C9_ReaderYieldsBothPayloads ==
    \A r \in ReaderIds :
        (OverflowScenario(r) /\ ReaderStopped(r)) => readers[r].out = written

\* C9 amended: in the overflow scenario a Reader obtained afterward replays
\* the Sink only.  It stops with Next() = false and Error() = nil without
\* ever yielding the second payload, which is still in the active segment:
\* it yields at most the first payload, and exactly the first payload on a
\* MemorySink.
C9_ReaderYieldsFlushedOnly ==
    \A r \in ReaderIds :
        OverflowScenario(r) =>
            /\ Len(readers[r].out) <= 1
            /\ readers[r].out = Take(written, Len(readers[r].out))
            /\ ReaderStopped(r) =>
                  /\ readers[r].res = "false"
                  /\ Reader_Error(readers[r]) = "nil"
                  /\ sink.kind = "mem" => readers[r].out = <<written[1]>>

\* The Reader of the overflow scenario has stopped on a MemorySink.
C9_Witness ==
    /\ OverflowScenario(1)
    /\ ReaderStopped(1)
    /\ sink.kind = "mem"
    /\ readers[1].out = <<written[1]>>

\* C10: once Close() has succeeded, Write(p) with len(p) <= capacity and
\* Flush() each return ErrLoggerClosed and change neither the active segment
\* nor the Sink.
C10_ClosedLoggerRejects ==
    [][(/\ logger.closed
        /\ \/ Called("Flush")
           \/ Called("Write") /\ Len(last'.p) <= logger.segSize)
       => (/\ last'.res = "ErrLoggerClosed"
           /\ logger'.seg = logger.seg
           /\ sink' = sink)]_vars

\* A Flush() on a closed Logger that had written something.
C10_Witness ==
    /\ logger.closed
    /\ last.op = "Flush"
    /\ last.res = "ErrLoggerClosed"
    /\ written # << >>

\* C11: a Close() on a Logger that a Close() already closed returns nil,
\* calls neither flush nor the Sink's Close, changes neither the active
\* segment nor the Sink, and leaves the Logger closed.
C11_SecondCloseIsNoOp ==
    [][(logger.closed /\ Called("Close"))
       => (/\ last'.res = "nil"
           /\ last'.flushes = 0
           /\ last'.closes = 0
           /\ logger' = logger
           /\ logger'.closed
           /\ sink' = sink)]_vars

\* A second Close() has returned on a Logger whose first Close() handed a
\* written chunk to the Sink.
C11_Witness ==
    /\ logger.closed
    /\ last.op = "Close"
    /\ last.flushes = 0
    /\ last.res = "nil"
    /\ written # << >>
    /\ SinkChunks(sink) # << >>

\* The chunks of a sequence that no Truncate call covered: their offset is
\* newer than every offset handed to Truncate.
NotTruncated(chunks) ==
    LET Kept(c) == \A o \in truncated : c.off > o IN SelectSeq(chunks, Kept)

\* C12: once Close() has succeeded the active segment is empty and the Sink
\* holds, in write order, every chunk a successful Write appended and no
\* Truncate covered.
C12_CloseHandsSegmentToSink ==
    logger.closed =>
        /\ logger.seg.chunks = << >>
        /\ IsSubSeq(NotTruncated(written), SinkChunks(sink))

\* C13: Write(p) with len(p) greater than the segment size returns ErrTooBig
\* without flushing and without changing the active segment, the closed
\* flag or the Sink.
C13_TooBigWriteChangesNothing ==
    [][(Called("Write") /\ Len(last'.p) > logger.segSize)
       => (/\ last'.res = "ErrTooBig"
           /\ last'.flushes = 0
           /\ logger' = logger
           /\ sink' = sink)]_vars

\* A Write of an over-long payload has been refused while the active segment
\* held a chunk.
C13_Witness ==
    /\ last.op = "Write"
    /\ Len(last.p) > logger.segSize
    /\ last.res = "ErrTooBig"
    /\ logger.seg.chunks # << >>
    /\ ~logger.closed

(***************************************************************************)
(* Claims about the encodings, under SpecChunk and SpecWire.               *)
(***************************************************************************)

\* C14: unmarshalling the text MarshalText gives for newChunkOffset(d, o)
\* succeeds and gives a chunk with the offset o and the payload bytes d, for
\* every payload d and every Offset o.
C14_ChunkTextRoundTrip ==
    wire.op = "UnmarshalText" =>
        /\ wire.ok
        /\ wire.back.off = wire.chunk.off
        /\ wire.back.data = wire.chunk.data

\* A chunk with a negative offset and a payload that does not fill a whole
\* base64 group has been marshalled and unmarshalled.
C14_Witness ==
    /\ wire.op = "UnmarshalText"
    /\ wire.chunk.off < 0
    /\ Len(wire.chunk.data) = 4
    /\ wire.chunk.data[4] = 255
    /\ wire.ok

\* C15: ReadFrom, on an empty Segment, of what WriteTo wrote for a populated
\* Segment succeeds and gives the same chunks: same offsets, same payloads,
\* same order.
C15_SegmentRoundTrip ==
    (wire.op = "ReadFrom" /\ sg.chunks # << >>) =>
        /\ wire.ok
        /\ wire.seg.chunks = sg.chunks

\* A Segment of two chunks, one of them with a payload made of row
\* separators, has been written out and read back.
C15_Witness ==
    /\ wire.op = "ReadFrom"
    /\ Len(sg.chunks) = 2
    /\ sg.chunks[1].data = <<Newline, Newline>>
    /\ sg.chunks[1].off # sg.chunks[2].off
    /\ Len(wire.seg.chunks) = 2

\* C16: for any Segment EncodedSize() is the number of bytes WriteTo writes,
\* and ReadFrom of those bytes returns the same number.
C16_EncodedSizeIsBytesWritten ==
    wire.op \in {"WriteTo", "ReadFrom"} =>
        /\ wire.size = wire.n
        /\ wire.n = Len(wire.text)
        /\ wire.op = "ReadFrom" => (wire.ok /\ wire.m = wire.n)

\* A Segment whose two chunks print offsets of different lengths has been
\* written out and read back.
C16_Witness ==
    /\ wire.op = "ReadFrom"
    /\ Len(sg.chunks) = 2
    /\ sg.chunks[1].off = FirstStamp
    /\ sg.chunks[2].off = IntMax
    /\ wire.m > 0

(***************************************************************************)
(* Claims about the Sinks, under SpecSink.                                 *)
(***************************************************************************)

\* No two entries of the DirectorySink's index have the same range.
DistinctRanges(sk) ==
    \A i, j \in 1..Len(sk.dsegs) : i # j => sk.dsegs[i] # sk.dsegs[j]

C18_ComparisonsAreNumeric ==
    wire.op = "Compare" =>
        /\ wire.before = (wire.a < wire.b)
        /\ wire.after = (wire.a > wire.b)
        /\ wire.equal = (wire.a = wire.b)
        /\ Cardinality({k \in {"before", "after", "equal"} : wire[k]}) = 1
        /\ wire.after = wire.rbefore

\* The segments of a Sink whose range, as the Sink knows it, holds o, and
\* those whose newest offset is not older than o.
SegsHolding(sk, o) ==
    {i \in 1..Sink_NumSegments(sk) : SegOldest(sk, i) <= o /\ o <= SegNewest(sk, i)}

SegsNotOlder(sk, o) == {i \in 1..Sink_NumSegments(sk) : o <= SegNewest(sk, i)}

\* LoadSegment(o) with o # ZeroOffset has just returned.
LoadedAt(kinds) ==
    /\ last.op = "LoadSegment"
    /\ last.o # ZeroOffset
    /\ sink.kind \in kinds

\* C19 as stated: on both backends LoadSegment(o), o # ZeroOffset, returns
\* the segment whose range holds o, and io.EOF when no stored segment's
\* range holds o (o older than the oldest, in a gap, newer than the newest,
\* or the Sink empty).
C19_LoadSegmentByRange ==
    LoadedAt({"mem", "dir"}) =>
        IF SegsHolding(sink, last.o) = {}
        THEN last.res = "EOF"
        ELSE /\ last.res = "nil"
             /\ last.lim[1] <= last.o /\ last.o <= last.lim[2]

\* C19 as the backends behave: the DirectorySink returns the first segment
\* whose range holds o and io.EOF when there is none; the MemorySink returns
\* the first segment whose newest offset is not older than o - the one
\* holding o or, when none holds it, the next newer one - and io.EOF only
\* when o is newer than every stored offset or the Sink is empty.
C19_LoadSegmentPerBackend ==
    /\ LoadedAt({"dir"}) =>
          IF SegsHolding(sink, last.o) = {}
          THEN last.res = "EOF"
          ELSE /\ last.res = "nil"
               /\ last.lim = sink.dsegs[Min(SegsHolding(sink, last.o))]
               /\ last.lim[1] <= last.o /\ last.o <= last.lim[2]
    /\ LoadedAt({"mem"}) =>
          IF SegsNotOlder(sink, last.o) = {}
          THEN last.res = "EOF"
          ELSE /\ last.res = "nil"
               /\ last.lim = <<SegOldest(sink, Min(SegsNotOlder(sink, last.o))),
                              SegNewest(sink, Min(SegsNotOlder(sink, last.o)))>>
               /\ SegsHolding(sink, last.o) # {} =>
                      (last.lim[1] <= last.o /\ last.o <= last.lim[2])

\* LoadSegment of an offset in the gap between two stored segments has
\* returned io.EOF on a DirectorySink.
C19_Witness ==
    /\ LoadedAt({"dir"})
    /\ Sink_NumSegments(sink) >= 2
    /\ SegNewest(sink, 1) < last.o
    /\ last.o < SegOldest(sink, 2)
    /\ last.res = "EOF"

\* C20: on a MemorySink holding at least one segment LoadSegment(o) returns
\* a segment and a nil error for every o not newer than the newest stored
\* offset (also o older than the oldest stored offset, and o one past the
\* newest offset of a segment), and io.EOF only when o is newer than every
\* stored offset.
C20_MemorySinkLoadsOlderOffsets ==
    (last.op = "LoadSegment" /\ sink.kind = "mem" /\ Sink_NumSegments(sink) >= 1) =>
        /\ last.o <= SegNewest(sink, Sink_NumSegments(sink)) => last.res = "nil"
        /\ last.res = "EOF" =>
              \A i \in 1..Sink_NumSegments(sink) : last.o > SegNewest(sink, i)
        /\ last.res \in {"nil", "EOF"}

\* LoadSegment of the offset one past the newest offset of the first
\* segment, which no segment holds, has returned the second segment of a
\* MemorySink.
C20_Witness ==
    /\ LoadedAt({"mem"})
    /\ Sink_NumSegments(sink) >= 2
    /\ last.o = SegNewest(sink, 1) + 1
    /\ last.o < SegOldest(sink, 2)
    /\ last.res = "nil"
    /\ last.lim = <<SegOldest(sink, 2), SegNewest(sink, 2)>>


(***************************************************************************)
(* Claims about the Reader's end of log and starting offset, under Spec.   *)
(***************************************************************************)

\* What the Sink answers to the loads one Next() of Reader rd performs, in
\* order: the load of rd.off when the Reader holds no segment, and the load
\* of rd.off + 1 when the segment it holds has no further chunk.
SinkAnswers(rd, sk) ==
    With(IF rd.seg.tag = "nil" THEN Sink_LoadSegment(sk, rd.off)
         ELSE [h |-> rd.seg, err |-> "nil"], LAMBDA first :
        (IF rd.seg.tag = "nil" THEN <<first.err>> ELSE << >>) \o
        (IF first.err # "nil" \/ first.h.tag = "nil" THEN << >>
         ELSE IF Segment_Next(HandleSeg(sk, first.h)).ok THEN << >>
         ELSE <<Sink_LoadSegment(sk, rd.off + 1).err>>))

\* The Sink answered one of the loads with err.
SinkAnswered(rd, sk, err) ==
    \E k \in 1..Len(SinkAnswers(rd, sk)) : SinkAnswers(rd, sk)[k] = err

\* The errors a Sink reports from LoadSegment other than io.EOF.
LoadErrors == {"no segments to load", "open segment file", "load segment"}

\* C21: when the Sink answers a load of Next() with io.EOF, on the first
\* load of the Reader or after the current segment is exhausted, Next()
\* returns false and Error() is nil; when it answers with another error,
\* Next() returns false and Error() is that error.
C21_EndOfLogStopsCleanly ==
    [][\A r \in ReaderIds :
          (Called("Next") /\ last'.r = r) =>
              /\ SinkAnswered(readers[r], sink, "EOF") =>
                    /\ ~crashed'
                    /\ readers'[r].res = "false"
                    /\ Reader_Error(readers'[r]) = "nil"
              /\ \A e \in LoadErrors :
                    SinkAnswered(readers[r], sink, e) =>
                        /\ ~crashed'
                        /\ readers'[r].res = "false"
                        /\ Reader_Error(readers'[r]) = e]_vars


\* C22: a Reader obtained with NewReaderOffset(O) starts reading at O: every
\* chunk it yields has an offset that is O or newer.
C22_ReaderStartsAtOffset ==
    \A r \in ReaderIds :
        \A k \in 1..Len(readers[r].out) :
            readers[r].out[k].off >= readers[r].from


\* C23: between two calls of Next(), Data() and Offset() keep returning the
\* payload and the offset of the chunk Next() last advanced to (the ones
\* recorded in out right after that Next()), whatever Write, Flush, Close
\* or Truncate calls were made since.
C23_DataAndOffsetAreStable ==
    \A r \in ReaderIds :
        (~crashed /\ readers[r].made /\ readers[r].res = "true") =>
            /\ CursorInRange(HandleSeg(sink, readers[r].seg))
            /\ Reader_Data(readers[r], sink) =
                  readers[r].out[Len(readers[r].out)].data
            /\ Reader_Offset(readers[r]) =
                  readers[r].out[Len(readers[r].out)].off


(***************************************************************************)
(* Claims about the closed Logger, rotation and capacity, under Spec.      *)
(***************************************************************************)

\* C25: once Close() has succeeded, Truncate(o) returns ErrLoggerClosed and
\* changes neither the Sink nor the active segment.
C25_ClosedLoggerRejectsTruncate ==
    [][(logger.closed /\ Called("Truncate"))
       => (/\ last'.res = "ErrLoggerClosed"
           /\ logger'.seg = logger.seg
           /\ sink' = sink)]_vars


\* C26: as long as Truncate was never called, the Logger is open and no
\* call of the Sink failed, the chunks of the Sink's segments in persisted
\* order followed by the chunks of the active segment are exactly the
\* chunks of the successful non-empty writes, in write order.
C26_RotationKeepsEveryChunk ==
    (ntruncs = 0 /\ ~logger.closed /\ ~stuck /\ ~sink.broken) =>
        SinkChunks(sink) \o logger.seg.chunks = written


\* C28: whatever the configured capacity, a Write(p) with len(p) within the
\* capacity on an open Logger whose Sink accepts segments returns nil after
\* at most one flush, with the payload (when it is not empty) as the newest
\* chunk of the active segment: the append after the flush succeeds and the
\* call terminates.
C28_WriteTerminatesForAnyCapacity ==
    [][(/\ Called("Write")
        /\ ~logger.closed
        /\ ~sink.broken
        /\ ToUint(Len(last'.p)) <= logger.segSize)
       => (/\ ~stuck'
           /\ last'.res = "nil"
           /\ last'.flushes <= 1
           /\ Len(last'.p) > 0 =>
                 /\ logger'.seg.chunks # << >>
                 /\ logger'.seg.chunks[Len(logger'.seg.chunks)] =
                       newChunkOffset(last'.p, clock))]_vars


(***************************************************************************)
(* The read cursor of a Segment, under SpecSegment and SpecSink.           *)
(***************************************************************************)

\* C29: Segment.Truncate(o) keeps the read cursor on the same logical
\* chunk.  The chunks go from the front, so with k chunks removed: when the
\* chunk at the cursor survives (cursor >= k) the cursor moves back by k,
\* Chunk() returns the same chunk as before and the chunks after the cursor
\* are the ones that were unread; when everything up to and including the
\* cursor went, the cursor is "before first" (-1).  The cursor stays within
\* -1 .. Chunks() - 1.
C29_TruncateKeepsCursorOnChunk ==
    [][Called("SegTruncate") =>
          LET k == Len(sg.chunks) - Len(sg'.chunks)
          IN  /\ 0 - 1 <= sg'.chunkIdx
              /\ sg'.chunkIdx <= Len(sg'.chunks) - 1
              /\ IF sg.chunkIdx >= k /\ CursorInRange(sg)
                 THEN /\ sg'.chunkIdx = sg.chunkIdx - k
                      /\ CursorInRange(sg')
                      /\ Segment_Chunk(sg') = Segment_Chunk(sg)
                      /\ Drop(sg'.chunks, sg'.chunkIdx + 1) =
                            Drop(sg.chunks, sg.chunkIdx + 1)
                 ELSE sg'.chunkIdx = 0 - 1]_vars


\* C30: a Segment that DirectorySink.LoadSegment returned (read from its
\* file by loadSegment) has its cursor before the first element: iterating
\* it with Next() and Chunk() visits every chunk of the segment file, from
\* the first one on, also when the file holds a single chunk.
C30_LoadedSegmentIteratesFromFirst ==
    (sink.kind = "dir" /\ last.op = "LoadSegment" /\ last.res = "nil") =>
        /\ last.seg.chunkIdx = 0 - 1
        /\ last.seg.chunks # << >>
        /\ Iterate(last.seg) = last.seg.chunks


(***************************************************************************)
(* A failing Sink, under SpecBroken.                                       *)
(***************************************************************************)

\* The Logger is open and the Sink would refuse its active segment.
FlushFails ==
    ~logger.closed /\ Sink_WriteSegment(sink, logger.seg).err # "nil"

\* Write(p) has to rotate: p passes the size test and the active segment
\* has no room for it.
Rotates(p) ==
    /\ ToUint(Len(p)) <= logger.segSize
    /\ Segment_Write(logger.seg, p, clock).err = "ErrNotEnoughSpace"

\* C27: when the Sink's WriteSegment fails in the flush of a Flush(), of a
\* rotating Write(p) or of a Close(), the call returns an error, the Logger
\* keeps its active segment with all its chunks and stays open, and the
\* payload of the Write is not appended.
C27_FailedFlushKeepsSegment ==
    [][(/\ FlushFails
        /\ \/ Called("Flush")
           \/ Called("Close")
           \/ Called("Write") /\ Rotates(last'.p))
       => (/\ last'.res # "nil"
           /\ logger' = logger
           /\ ~logger'.closed
           /\ written' = written)]_vars

\* A rotating Write failed on the broken directory and the active segment
\* still holds the chunk written before.
C27_Witness ==
    /\ sink.broken
    /\ last.op = "Write"
    /\ last.res = "write segment"
    /\ last.flushes = 1
    /\ ~logger.closed
    /\ logger.seg.chunks = written
    /\ Len(written) = 1


(***************************************************************************)
(* The periodic flush helper, under SpecFlushInterval.                     *)
(***************************************************************************)

\* C24: FlushInterval calls Flush() again and again while the Logger stays
\* open: after every Flush() it has made, while it is in its loop, it makes
\* another one unless the Logger gets closed; an error that is not
\* ErrLoggerClosed goes to onError and does not end the loop; and once a
\* Flush() has returned ErrLoggerClosed, FlushInterval returns.
C24_FlushesUntilClosed ==
    /\ \A n \in 0..(MaxHelperFlushes - 1) :
          (helper.pc \in {"range", "drain"} /\ helper.flushes = n)
              ~> (helper.flushes > n \/ logger.closed)
    /\ [](helper.errs # << >> /\ ~helper.closed => helper.pc \in {"range", "drain"})
    /\ helper.closed ~> (helper.pc = "done")


(***************************************************************************)
(* Replay across segments, under SpecReplay.                               *)
(***************************************************************************)

\* The chunks of the Sink's segments from segment i on, in persisted order.
SinkChunksFrom(sk, i) ==
    Flatten([k \in 1..(Sink_NumSegments(sk) - i + 1) |-> SegChunksAt(sk, k + i - 1)])

\* C31: a Reader that has exhausted a segment goes on with the next stored
\* segment, from its first chunk, whatever the distance between the offsets
\* (also none).  Seen on the first Reader of a Sink, started at ZeroOffset
\* when the Sink held all its segments: once it has yielded a chunk and
\* stopped, it stopped with Next() = false and what it yielded ends with
\* every chunk of the segments after the first, in persisted order.
C31_NextSegmentIsNeverSkipped ==
    \A r \in ReaderIds :
        (/\ ReaderStopped(r)
         /\ readers[r].gen = 0
         /\ readers[r].from = ZeroOffset
         /\ readers[r].out # << >>
         /\ readers[r].at.ns = Sink_NumSegments(sink))
        => LET later == SinkChunksFrom(sink, 2)
               out == readers[r].out
           IN  /\ readers[r].res = "false"
               /\ Len(out) >= Len(later)
               /\ Drop(out, Len(out) - Len(later)) = later


\* C32: every call of Next() returns, true or false, after finitely many
\* segment loads, whatever the Sink holds: no Next() keeps reloading a
\* segment for ever, also not on a Reader started at ZeroOffset on a
\* MemorySink whose segments an earlier Reader iterated to the end.
C32_NextTerminates ==
    \A r \in ReaderIds : readers[r].res # "hang"


(***************************************************************************)
(* Analyze on a directory left by a crash, under SpecCrash.                *)
(***************************************************************************)
\* The segment files of the directory whose own .CHECKSUM sibling is there
\* and holds the checksum of the segment file.
SiblingMatches(sk, name) ==
    DirectorySink_verifySegment(sk, name, name \o ChecksumSuffix) = "nil"

\* C33: Analyze() verifies every segment file against its own sibling
\* <segment file name>.CHECKSUM, whatever else the directory holds: it fails
\* with an error (and does not panic) when some segment's sibling is missing
\* or does not match, and it rejects no segment when every segment's sibling
\* matches, orphaned checksum files notwithstanding.
C33_AnalyzeVerifiesAgainstSibling ==
    [][(/\ Called("Analyze")
        /\ sink.kind = "dir")
       => LET segments == DirectorySink_findFiles(sink).segments
              good == \A i \in 1..Len(segments) : SiblingMatches(sink, segments[i])
          IN  /\ last'.res # "panic"
              /\ good <=> (last'.res = "nil")]_vars


(***************************************************************************)
(* Truncation of everything, under Spec.                                   *)
(***************************************************************************)
\* C34: Truncate(O) returns normally for every offset O and every sink
\* state, without an out-of-range access: when O is newer than every stored
\* offset all segments are removed and NumSegments() is 0 afterwards, and on
\* a sink holding no segment the call leaves it empty.
C34_TruncateReturnsNormally ==
    [][Called("Truncate")
       => (/\ last'.res # "panic"
           /\ (\A i \in 1..Sink_NumSegments(sink) : SegNewest(sink, i) < last'.o)
                 => Sink_NumSegments(sink') = 0)]_vars


(***************************************************************************)
(* Concurrent calls on one Logger, under SpecConc.                         *)
(***************************************************************************)
\* The chunks the Sink's segments and the active segment hold.
StoredOf(l, sk) == SinkChunks(sk) \o l.seg.chunks

CountIn(seq, x) == Cardinality({k \in DOMAIN seq : seq[k] = x})

\* st holds every chunk of w as often as w does, and nothing else.
StoredOnce(st, w) ==
    /\ \A k \in DOMAIN w : CountIn(st, w[k]) = CountIn(w, w[k])
    /\ Len(st) = Len(w)

\* C35: under any interleaving of concurrent Write, Flush and Close calls
\* the append-or-rotate-and-retry sequence of a Write is atomic: the payload
\* of every successful Write is stored exactly once, in the active segment
\* or in exactly one Sink segment, and nothing else is stored (no segment is
\* handed to the Sink twice); once Close() has returned success nothing is
\* appended any more.
C35_WritesAreAtomic ==
    [][/\ StoredOnce(StoredOf(logger', sink'), written')
       /\ logger.closed => StoredOf(logger', sink') = StoredOf(logger, sink)]_vars


(***************************************************************************)
(* WriteSegment racing with Analyze, under SpecRace.                       *)
(***************************************************************************)
\* C36: WriteSegment is serialized against Analyze: whatever the
\* interleaving of WriteSegment calls with Analyze calls on one
\* DirectorySink, once the calls have returned the index lists every
\* segment file of the directory exactly once, and nothing else.
C36_IndexListsEveryFileOnce ==
    (helper.pc = "idle" /\ ~crashed /\ last.res = "nil")
    => With(DirectorySink_findFiles(sink).segments, LAMBDA files :
          /\ \A k \in DOMAIN files : CountIn(sink.dpaths, files[k]) = 1
          /\ Len(sink.dpaths) = Len(files))


(***************************************************************************)
(* The ranges of the stored segments, under Spec.                          *)
(***************************************************************************)
\* Segment i of the Sink is there to be loaded: a segment of a MemorySink
\* always, a segment of a DirectorySink if the file the index names exists.
SegStored(sk, i) == sk.kind = "mem" \/ sk.dpaths[i] \in DOMAIN sk.disk

\* C37: after any sequence of Writes, Flushes and Truncates, with offsets
\* from a clock that never goes back, the ranges of the Sink's segments are
\* contiguous and do not overlap, in the order persisted: no segment has
\* the empty range and no stored segment is without chunks, the oldest
\* offset of a segment is not newer than its newest, the newest offset of a
\* segment is not newer than the oldest of the next, and Offsets() is the
\* oldest offset of the first segment and the newest of the last.
C37_RangesAreOrdered ==
    (~crashed /\ Sink_NumSegments(sink) > 0)
    => With(Sink_NumSegments(sink), LAMBDA n :
          /\ \A i \in 1..n :
                /\ <<SegOldest(sink, i), SegNewest(sink, i)>> # <<ZeroOffset, ZeroOffset>>
                /\ SegStored(sink, i) => SegChunksAt(sink, i) # << >>
                /\ SegOldest(sink, i) <= SegNewest(sink, i)
          /\ \A i \in 1..(n - 1) : SegNewest(sink, i) <= SegOldest(sink, i + 1)
          /\ Sink_Offsets(sink).err = "nil"
          /\ Sink_Offsets(sink).first = SegOldest(sink, 1)
          /\ Sink_Offsets(sink).last = SegNewest(sink, n))

\* A Truncate has returned normally and left two segments or more, after
\* two Writes.
C37_Witness ==
    /\ ~crashed
    /\ Sink_NumSegments(sink) >= 2
    /\ Len(written) = MaxWrites
    /\ last.op = "Truncate"
    /\ last.res = "nil"

====
